---- MODULE Spec2Model ----
(***************************************************************************)
(* DriveLaw: the one-time-passcode workflow of the authentication router.  *)
(*                                                                         *)
(* The HTTP handlers (send_otp, verify_otp) and the unverified_users table *)
(* are modelled from src/app/api/v1/routers/auth.py and                    *)
(* src/app/models/user.py.  OtpService (app/services/otpService.py) is     *)
(* imported by the router but is not part of the source tree; its two      *)
(* operations are modelled from sections 4.1-4.3 of the specification.     *)
(*                                                                         *)
(* Time is counted in minutes.                                             *)
(***************************************************************************)
EXTENDS Integers, Sequences, FiniteSets, TLC

\* ------------------------------------------------------------------ bounds
MaxTime == 20
ClockStep == 5
NumCodes == 2
MaxHops == 3
MaxBurst == 4

\* ------------------------------------------------------- program constants
MAX_ATTEMPTS == 5
LOCK_DURATION == 15
OTP_TTL == 5
REMEMBER_TTL == 43200
SESSION_TTL == 60
RATE_LIMIT == 3

Codes == 1..NumCodes
Channels == {"email", "sms"}

\* NULL of a nullable DateTime column
NULL == -1
NoCode == 0

Roles == {"driver", "officer", "admin"}

\* ------------------------------------------------------ session-token codec
\* settings.SECRET_KEY, and a key that is not the server's
SECRET_KEY == "secret"
OTHER_KEY == "other"

\* The instants requests of the session specifications are served at: up to
\* MaxHops half session lifetimes after the start, and the same again one
\* long session lifetime later.
HalfSession == SESSION_TTL \div 2
SessionInstants ==
  {a * HalfSession + b * REMEMBER_TTL : a \in 0..MaxHops, b \in 0..1}

\* A datetime as the integer the token carries: seconds since the epoch.
Timestamp(t) == t * 60

\* The signature of a payload under a key.
Sign(payload, key) == [key |-> key, payload |-> payload]

\* jwt.encode(payload, key, algorithm)
jwt_encode(payload, key) ==
  [form |-> "jwt", payload |-> payload, sig |-> Sign(payload, key)]

\* No auth_token cookie.
NoToken ==
  [form |-> "none", payload |-> [sub |-> <<>>],
   sig |-> Sign([sub |-> <<>>], "")]

\* A cookie value that is not a token.
Garbage ==
  [form |-> "garbage", payload |-> [sub |-> <<>>],
   sig |-> Sign([sub |-> <<>>], "")]

\* A token whose payload was altered after it was signed: the expiry is
\* moved one long session lifetime on.
Tamper(token) ==
  [token EXCEPT !.payload =
     [k \in DOMAIN token.payload |->
        IF k = "exp" THEN token.payload[k] + Timestamp(REMEMBER_TTL)
        ELSE token.payload[k]]]

\* The payload of a token signed again under a key that is not the server's.
Forge(token) == jwt_encode(token.payload, OTHER_KEY)

\* Variant: the token expires at the instant it is issued.
create_jwt_token_IgnoresDelta(data, expires_delta, t) ==
  jwt_encode([k \in DOMAIN data \cup {"exp", "iat"} |->
                IF k = "exp" THEN Timestamp(t)
                ELSE IF k = "iat" THEN Timestamp(t)
                ELSE data[k]],
             SECRET_KEY)

\* create_jwt_token(data, expires_delta) called at instant t: exp and iat
\* are written over the copy of data, the result is signed with SECRET_KEY.
create_jwt_token(data, expires_delta, t) ==
  jwt_encode([k \in DOMAIN data \cup {"exp", "iat"} |->
                IF k = "exp" THEN Timestamp(t + expires_delta)
                ELSE IF k = "iat" THEN Timestamp(t)
                ELSE data[k]],
             SECRET_KEY)

DecodeFailure(error) == [ok |-> FALSE, error |-> error, payload |-> <<>>]

\* Variant: the expiry is not verified.
decode_jwt_token_SkipsExpiry(token, t) ==
  IF token.form # "jwt" THEN DecodeFailure("DecodeError")
  ELSE IF token.sig # Sign(token.payload, SECRET_KEY)
    THEN DecodeFailure("InvalidSignatureError")
  ELSE [ok |-> TRUE, error |-> "none", payload |-> token.payload]

\* decode_jwt_token(token) called at instant t: jwt.decode checks the form,
\* then the signature, then the expiry; every exception is raised again.
decode_jwt_token(token, t) ==
  IF token.form # "jwt" THEN DecodeFailure("DecodeError")
  ELSE IF token.sig # Sign(token.payload, SECRET_KEY)
    THEN DecodeFailure("InvalidSignatureError")
  ELSE IF "exp" \in DOMAIN token.payload
            /\ token.payload["exp"] <= Timestamp(t)
    THEN DecodeFailure("ExpiredSignatureError")
  ELSE [ok |-> TRUE, error |-> "none", payload |-> token.payload]

\* The exception classes of the jwt package: ExpiredSignatureError and
\* DecodeError derive from InvalidTokenError, InvalidSignatureError from
\* DecodeError.
IsExpiredSignatureError(error) == error = "ExpiredSignatureError"

IsInvalidTokenError(error) ==
  error \in {"ExpiredSignatureError", "DecodeError", "InvalidSignatureError"}

\* The data the codec is exercised on: the session claims, with or without
\* the method claim.
ClaimSets ==
  {[sub |-> c, onboarding |-> o, role |-> r] :
     c \in {<<"a", "@", "b">>, <<"2", "3">>}, o \in BOOLEAN, r \in Roles}
  \cup
  {[sub |-> <<"a", "@", "b">>, onboarding |-> TRUE, role |-> "driver",
    method |-> m] : m \in {"email", "phone"}}

NoOutcome == [at |-> NULL, ok |-> FALSE, error |-> "none", payload |-> <<>>]

NoCodec ==
  [pc |-> "off", data |-> <<>>, ttl |-> 0, iat |-> NULL, token |-> NoToken,
   first |-> NoOutcome, out |-> NoOutcome]

\* --------------------------------------------------------- contact strings
\* A contact string is a sequence of characters over a small alphabet.
EmailSpellings == {<<"a", "@", "b">>, <<"A", "@", "b">>, <<" ", "a", "@", "b">>}
PhoneSpellings == {<<"2", "3">>, <<"+", "2", "3">>}
AllRawContacts == EmailSpellings \cup PhoneSpellings

\* The contact strings the requests of Spec carry.
RawContacts == EmailSpellings

Range(s) == {s[i] : i \in DOMAIN s}

Lower(ch) == IF ch = "A" THEN "a" ELSE IF ch = "B" THEN "b" ELSE ch

RECURSIVE LStrip(_)
LStrip(s) == IF s # <<>> /\ Head(s) = " " THEN LStrip(Tail(s)) ELSE s

RECURSIVE RStrip(_)
RStrip(s) ==
  IF s # <<>> /\ s[Len(s)] = " " THEN RStrip(SubSeq(s, 1, Len(s) - 1)) ELSE s

Strip(s) == RStrip(LStrip(s))

IsEmail(s) == "@" \in Range(s)

\* Variant: the letter case of an email address is kept.
Normalize_KeepsCase(raw) ==
  LET s == Strip(raw) IN
    IF IsEmail(s) THEN s
    ELSE IF s # <<>> /\ Head(s) = "+" THEN Tail(s)
    ELSE s

\* Section 4.1: strip whitespace, strip a leading "+" of a phone number,
\* lower-case an email address.
Normalize(raw) ==
  LET s == Strip(raw) IN
    IF IsEmail(s) THEN [i \in DOMAIN s |-> Lower(s[i])]
    ELSE IF s # <<>> /\ Head(s) = "+" THEN Tail(s)
    ELSE s

Contacts == {Normalize(raw) : raw \in AllRawContacts}

\* The two persons the contact strings belong to: the spellings of the
\* email address are one person's, those of the phone number the other's.
Persons == {"email", "phone"}

PersonOf(raw) == IF raw \in EmailSpellings THEN "email" ELSE "phone"

\* The users table is keyed, like the session token's subject, by the
\* contact of the user: the two contacts of the workflow and a third user.
DriverUser == <<"c", "@", "d">>
OfficerUser == <<"a", "@", "b">>
AdminUser == <<"2", "3">>
Users == Contacts \cup {DriverUser}

\* The rows of offense_appeals, and of traffic_offenses, by id: appeal i is
\* against offense i.
AppealIds == {1, 2}

\* AppealStatus and OffenseStatus, by value
AppealStatus ==
  {"under_review", "approved", "rejected", "pending_documentation",
   "withdrawn"}
OffenseStatus ==
  {"unpaid", "paid", "under_appeal", "appealed_approved",
   "appealed_rejected", "overdue", "waived"}

\* ------------------------------------------------------------------- state
\* The handler instances that can be in flight at once; a new request takes
\* the lowest free one.
ReqIds == {1, 2}

\* The client addresses requests come from (get_remote_address).
Clients == {"10.0.0.1", "10.0.0.2"}


VARIABLES
  now,         \* the server clock (datetime.utcnow), in minutes
  db,          \* the unverified_users table: a set of rows
  accounts,    \* contacts for which a users row exists
  resp,        \* the response of the last request served
  inflight,    \* requests that have loaded their row and not yet committed
  lastIssued,  \* history: code written by the latest send_otp, per contact
  prevIssued,  \* history of Spec: code written by the send_otp before that
               \* one
  wrongRun,    \* history: wrong codes submitted before expiry since the
               \* latest send_otp, per contact (counted up to MAX_ATTEMPTS+1)
  lockedUntil, \* history: LOCK_DURATION after the MAX_ATTEMPTS-th wrong code
  consumed,    \* history: a verify_otp succeeded since the latest send_otp
  unlocked,    \* history: the latest send_otp replaced a lock that had run out
  undelivered, \* history: the notifier raised in the latest send_otp
  codec,       \* CodecSpec: the data, the token made of it, what decoding gave
  jar,         \* the auth_token cookie the client's browser holds
  kept,        \* a copy of the token the client was issued last
  profile,     \* users table: the role chosen at onboarding, "none" before
  unread,      \* notifications table: accounts with an unread notification
  hits,        \* the limiter's counters of the running minute
  reached,     \* history: requests of the running minute that the service got
  appeals,     \* the offense_appeals table, by id
  offenses,    \* the traffic_offenses table, by id
  stats,       \* the offense_statistics table, by user
  is_active,   \* users table: the is_active column, by user
  verification_stage,  \* users table: the verification_stage column
  typed,       \* the contact string of the last request, as it was typed
  famCode,     \* history: per person, the code of the latest send_otp that
               \* was served, NoCode once it has been used
  famWrong,    \* history: per person, wrong codes submitted since that
               \* send_otp (counted up to MAX_ATTEMPTS)
  notifications  \* the notifications table, by id

vars == <<now, db, accounts, resp, inflight,
          lastIssued, prevIssued, wrongRun, lockedUntil, consumed, unlocked,
          undelivered, codec, jar, kept, profile, unread, hits, reached,
          appeals, offenses, stats, is_active, verification_stage,
          typed, famCode, famWrong, notifications>>

session == <<jar, kept, profile, unread>>

edge == <<hits, reached>>

spelling == <<typed, famCode, famWrong>>

bureau == <<appeals, offenses, stats>>

registry == <<is_active, verification_stage>>

office == <<spelling, bureau, registry, notifications>>

history ==
  <<lastIssued, wrongRun, lockedUntil, consumed, unlocked, undelivered>>

\* ------------------------------------------------- unverified_users table
\* Variant: the columns carry no defaults, an unset column is NULL.
UnverifiedUser_NoDefaults(contact, otp_secret, otp_expires, verification_channel) ==
  [ contact |-> contact,
    otp_secret |-> otp_secret,
    otp_expires |-> otp_expires,
    verification_channel |-> verification_channel,
    verification_attempts |-> NULL,
    is_locked |-> FALSE,
    lock_expires |-> NULL ]

\* A new UnverifiedUser row: the column defaults of the table apply to the
\* columns the caller does not set.
UnverifiedUser(contact, otp_secret, otp_expires, verification_channel) ==
  [ contact |-> contact,
    otp_secret |-> otp_secret,
    otp_expires |-> otp_expires,
    verification_channel |-> verification_channel,
    verification_attempts |-> 0,
    is_locked |-> FALSE,
    lock_expires |-> NULL ]

\* select(UnverifiedUser).where(contact == c)
RowsOf(table, c) == {u \in table : u.contact = c}

HasRow(table, c) == RowsOf(table, c) # {}

TheRow(table, c) == CHOOSE u \in RowsOf(table, c) : TRUE

\* UPDATE unverified_users SET <patch> WHERE contact = c
Patch(u, patch) ==
  [f \in DOMAIN u |-> IF f \in DOMAIN patch THEN patch[f] ELSE u[f]]

\* Variant: the patched row is added next to the row it was made from.
UpdateRow_Appends(table, c, patch) ==
  table \cup {Patch(u, patch) : u \in RowsOf(table, c)}

UpdateRow(table, c, patch) ==
  {IF u.contact = c THEN Patch(u, patch) ELSE u : u \in table}

\* Variant: the delete has no WHERE clause.
DeleteRow_AllRows(table, c) == {}

\* DELETE FROM unverified_users WHERE contact = c
DeleteRow(table, c) == {u \in table : u.contact # c}


\* Session.add(row) under the unique constraints of email and phone: a
\* second row for the same contact is rejected with an IntegrityError.
UniqueViolation(table, row) == HasRow(table, row.contact)

InsertRow(table, row) ==
  IF UniqueViolation(table, row) THEN table ELSE table \cup {row}

\* ----------------------------------------------------- OtpService (4.2, 4.3)
\* Variant: the submitted code is compared before the expiry is looked at.
VerifyDecision_EqualityBeforeExpiry(found, u, otp, t) ==
  IF ~found
    THEN [status |-> "NOT_FOUND", write |-> "none", patch |-> <<>>]
  ELSE IF u.is_locked /\ t < u.lock_expires
    THEN [status |-> "LOCKED", write |-> "none", patch |-> <<>>]
  ELSE IF otp # u.otp_secret
    THEN IF u.verification_attempts + 1 >= MAX_ATTEMPTS
           THEN [status |-> "MAX_ATTEMPTS", write |-> "update",
                 patch |-> [verification_attempts |->
                              u.verification_attempts + 1,
                            is_locked |-> TRUE,
                            lock_expires |-> t + LOCK_DURATION]]
           ELSE [status |-> "CODE_INVALID", write |-> "update",
                 patch |-> [verification_attempts |->
                              u.verification_attempts + 1]]
  ELSE IF t >= u.otp_expires
    THEN [status |-> "CODE_EXPIRED", write |-> "none", patch |-> <<>>]
  ELSE [status |-> "SUCCESS", write |-> "delete", patch |-> <<>>]

\* Variant: a matching code leaves the row in place.
VerifyDecision_KeepsRow(found, u, otp, t) ==
  IF ~found
    THEN [status |-> "NOT_FOUND", write |-> "none", patch |-> <<>>]
  ELSE IF u.is_locked /\ t < u.lock_expires
    THEN [status |-> "LOCKED", write |-> "none", patch |-> <<>>]
  ELSE IF t >= u.otp_expires
    THEN [status |-> "CODE_EXPIRED", write |-> "none", patch |-> <<>>]
  ELSE IF otp # u.otp_secret
    THEN IF u.verification_attempts + 1 >= MAX_ATTEMPTS
           THEN [status |-> "MAX_ATTEMPTS", write |-> "update",
                 patch |-> [verification_attempts |->
                              u.verification_attempts + 1,
                            is_locked |-> TRUE,
                            lock_expires |-> t + LOCK_DURATION]]
           ELSE [status |-> "CODE_INVALID", write |-> "update",
                 patch |-> [verification_attempts |->
                              u.verification_attempts + 1]]
  ELSE [status |-> "SUCCESS", write |-> "none", patch |-> <<>>]

\* The decision verify_otp takes on the row it has loaded (found = FALSE
\* when there is none) at time t: the status it returns and what it writes.
VerifyDecision(found, u, otp, t) ==
  IF ~found
    THEN [status |-> "NOT_FOUND", write |-> "none", patch |-> <<>>]
  ELSE IF u.is_locked /\ t < u.lock_expires
    THEN [status |-> "LOCKED", write |-> "none", patch |-> <<>>]
  ELSE IF t >= u.otp_expires
    THEN [status |-> "CODE_EXPIRED", write |-> "none", patch |-> <<>>]
  ELSE IF otp # u.otp_secret
    THEN IF u.verification_attempts + 1 >= MAX_ATTEMPTS
           THEN [status |-> "MAX_ATTEMPTS", write |-> "update",
                 patch |-> [verification_attempts |->
                              u.verification_attempts + 1,
                            is_locked |-> TRUE,
                            lock_expires |-> t + LOCK_DURATION]]
           ELSE [status |-> "CODE_INVALID", write |-> "update",
                 patch |-> [verification_attempts |->
                              u.verification_attempts + 1]]
  ELSE [status |-> "SUCCESS", write |-> "delete", patch |-> <<>>]

\* Variant: a lock is never taken to have run out.
SendRefused_IgnoresLockExpiry(found, u, t) == found /\ u.is_locked

\* send_otp refuses a contact whose row is locked and whose lock has not
\* run out; the router names the error it raises a ValueError.
SendRefused(found, u, t) == found /\ u.is_locked /\ t < u.lock_expires

\* Variant: the stored code of an existing row is kept.
SendPatch_KeepsSecret(code, channel, t) ==
  [ otp_expires |-> t + OTP_TTL,
    verification_channel |-> channel,
    verification_attempts |-> 0,
    is_locked |-> FALSE ]

\* The columns send_otp writes on an existing row.
SendPatch(code, channel, t) ==
  [ otp_secret |-> code,
    otp_expires |-> t + OTP_TTL,
    verification_channel |-> channel,
    verification_attempts |-> 0,
    is_locked |-> FALSE ]

\* Upsert keyed by contact: update the row when there is one, insert a new
\* row otherwise.
Upsert(table, c, code, channel, t) ==
  IF HasRow(table, c)
    THEN UpdateRow(table, c, SendPatch(code, channel, t))
    ELSE InsertRow(table, UnverifiedUser(c, code, t + OTP_TTL, channel))

\* The claims verify_otp puts into the session token (4.3 step 5).
SessionClaims(c) ==
  [ sub |-> c,
    onboarding |-> profile[c] = "none",
    role |-> IF profile[c] = "none" THEN "driver" ELSE profile[c] ]

\* The lifetime of the token verify_otp mints (4.3 step 5).
TokenLifetime(remember) == IF remember THEN REMEMBER_TTL ELSE SESSION_TTL

\* ----------------------------------------------------------------- router
\* Variant: no except clause for ValueError.
SendOtpResponse_NoValueErrorClause(exc) ==
  IF exc = "none" THEN [code |-> 200, detail |-> "OTP sent"]
  ELSE [code |-> 500, detail |-> "You are not connected"]

\* Variant: an exception other than ValueError is swallowed.
SendOtpResponse_SwallowsErrors(exc) ==
  IF exc = "ValueError"
    THEN [code |-> 403, detail |-> "Too many incorrect attempts"]
  ELSE [code |-> 200, detail |-> "OTP sent"]

\* send_otp: the service returned, raised ValueError, or raised another
\* exception.
SendOtpResponse(exc) ==
  IF exc = "none" THEN [code |-> 200, detail |-> "OTP sent"]
  ELSE IF exc = "ValueError"
    THEN [code |-> 403, detail |-> "Too many incorrect attempts"]
  ELSE [code |-> 500, detail |-> "You are not connected"]

\* Variant: LOCKED is answered like an invalid code.
VerifyOtpResponse_LockedAsInvalid(status) ==
  IF status = "SUCCESS"
    THEN [code |-> 200, detail |-> "OTP verified successfully"]
  ELSE IF status = "CODE_EXPIRED"
    THEN [code |-> 400, detail |-> "OTP has expired"]
  ELSE IF status = "CODE_INVALID" \/ status = "LOCKED"
    THEN [code |-> 400, detail |-> "Invalid OTP"]
  ELSE IF status = "MAX_ATTEMPTS"
    THEN [code |-> 403, detail |-> "Too many failed attempts"]
  ELSE IF status = "NOT_FOUND"
    THEN [code |-> 404, detail |-> "OTP session not found"]
  ELSE [code |-> 500, detail |-> "Unexpected error"]

\* Variant: CODE_EXPIRED is answered like an invalid code.
VerifyOtpResponse_ExpiredAsInvalid(status) ==
  IF status = "SUCCESS"
    THEN [code |-> 200, detail |-> "OTP verified successfully"]
  ELSE IF status = "LOCKED"
    THEN [code |-> 403, detail |-> "You are temporarily locked"]
  ELSE IF status = "CODE_EXPIRED" \/ status = "CODE_INVALID"
    THEN [code |-> 400, detail |-> "Invalid OTP"]
  ELSE IF status = "MAX_ATTEMPTS"
    THEN [code |-> 403, detail |-> "Too many failed attempts"]
  ELSE IF status = "NOT_FOUND"
    THEN [code |-> 404, detail |-> "OTP session not found"]
  ELSE [code |-> 500, detail |-> "Unexpected error"]

\* Variant: no branch for NOT_FOUND, which falls through to the last line.
VerifyOtpResponse_NoNotFoundBranch(status) ==
  IF status = "SUCCESS"
    THEN [code |-> 200, detail |-> "OTP verified successfully"]
  ELSE IF status = "LOCKED"
    THEN [code |-> 403, detail |-> "You are temporarily locked"]
  ELSE IF status = "CODE_EXPIRED"
    THEN [code |-> 400, detail |-> "OTP has expired"]
  ELSE IF status = "CODE_INVALID"
    THEN [code |-> 400, detail |-> "Invalid OTP"]
  ELSE IF status = "MAX_ATTEMPTS"
    THEN [code |-> 403, detail |-> "Too many failed attempts"]
  ELSE [code |-> 500, detail |-> "Unexpected error"]

\* verify_otp: the HTTP response of each verification status.
VerifyOtpResponse(status) ==
  IF status = "SUCCESS"
    THEN [code |-> 200, detail |-> "OTP verified successfully"]
  ELSE IF status = "LOCKED"
    THEN [code |-> 403, detail |-> "You are temporarily locked"]
  ELSE IF status = "CODE_EXPIRED"
    THEN [code |-> 400, detail |-> "OTP has expired"]
  ELSE IF status = "CODE_INVALID"
    THEN [code |-> 400, detail |-> "Invalid OTP"]
  ELSE IF status = "MAX_ATTEMPTS"
    THEN [code |-> 403, detail |-> "Too many failed attempts"]
  ELSE IF status = "NOT_FOUND"
    THEN [code |-> 404, detail |-> "OTP session not found"]
  ELSE [code |-> 500, detail |-> "Unexpected error"]

\* Variant: the cookie is set before the status is looked at.
SetsCookie_Always(status) == TRUE

\* verify_otp sets the auth_token cookie on SUCCESS only.
SetsCookie(status) == status = "SUCCESS"

\* Variant: the cookie lives one hour whatever the request asks for.
CookieExpires_AlwaysHour(remember) == SESSION_TTL

\* expires = timedelta(days=30) if user_remember_me else timedelta(hours=1)
CookieExpires(remember) == IF remember THEN REMEMBER_TTL ELSE SESSION_TTL

\* int(expires.total_seconds())
TotalSeconds(expires) == expires * 60

\* send_email_otp / the SMS gateway: the message is accepted, or the call
\* raises.
Dispatch(channel, accepted) == IF accepted THEN "sent" ELSE "raised"

NoResp ==
  [ op |-> "none", contact |-> <<>>, otp |-> NoCode, status |-> "none",
    http |-> 0, detail |-> "", cookie |-> NoToken, max_age |-> 0,
    dispatch |-> "none", prior |-> NULL, raced |-> FALSE,
    token |-> NoToken, error |-> "none", queried |-> FALSE,
    remember |-> FALSE, appeal |-> 0, decision |-> "none",
    notification |-> 0, ids |-> {}, rowcount |-> 0, unread_count |-> 0 ]

\* The response of send_otp when the service raised exc (or "none").
\* prior records the attempt count of the row the call replaced; raced
\* tells that another send_otp wrote the row after this call loaded it.
SendResponse(c, code, status, exc, dispatch, prior) ==
  [NoResp EXCEPT !.op = "send", !.contact = c, !.otp = code,
     !.status = status,
     !.http = SendOtpResponse(exc).code,
     !.detail = SendOtpResponse(exc).detail,
     !.dispatch = dispatch, !.prior = prior]

\* The response of verify_otp for the status the service returned.
VerifyResponse(c, otp, remember, status, t) ==
  [NoResp EXCEPT !.op = "verify", !.contact = c, !.otp = otp,
     !.remember = remember,
     !.status = status,
     !.http = VerifyOtpResponse(status).code,
     !.detail = VerifyOtpResponse(status).detail,
     !.cookie = IF SetsCookie(status)
                  THEN create_jwt_token(SessionClaims(c),
                                        TokenLifetime(remember), t)
                  ELSE NoToken,
     !.max_age = IF SetsCookie(status)
                   THEN TotalSeconds(CookieExpires(remember)) ELSE 0]

Min(a, b) == IF a < b THEN a ELSE b

NoRow == [contact |-> <<>>]

\* No offense_statistics row for a user.
NoStats == [present |-> FALSE, pending_appeals |-> 0, successful_appeals |-> 0]

Idle == [pc |-> "idle"]

\* ------------------------------------------------------------------- Init
\* Every table of the workflow empty, no request served yet.
InitWorkflow ==
  /\ now = 0
  /\ db = {}
  /\ resp = NoResp
  /\ inflight = [r \in ReqIds |-> Idle]
  /\ lastIssued = [c \in Contacts |-> NoCode]
  /\ prevIssued = [c \in Contacts |-> NoCode]
  /\ wrongRun = [c \in Contacts |-> 0]
  /\ lockedUntil = [c \in Contacts |-> NULL]
  /\ consumed = [c \in Contacts |-> FALSE]
  /\ unlocked = [c \in Contacts |-> FALSE]
  /\ undelivered = [c \in Contacts |-> FALSE]
  /\ jar = NoToken
  /\ kept = NoToken
  /\ unread = {}
  /\ hits = [a \in Clients |-> [send |-> 0, verify |-> 0]]
  /\ reached = [a \in Clients |-> [send |-> 0, verify |-> 0]]
  /\ typed = <<>>
  /\ famCode = [f \in Persons |-> NoCode]
  /\ famWrong = [f \in Persons |-> 0]

\* No user yet, no offense and no appeal.
InitServer ==
  /\ InitWorkflow
  /\ accounts = {}
  /\ profile = [c \in Users |-> "none"]
  /\ appeals = <<>>
  /\ offenses = <<>>
  /\ stats = [c \in Users |-> NoStats]
  /\ is_active = [c \in Users |-> FALSE]
  /\ notifications = <<>>
  /\ verification_stage = [c \in Users |-> "otp_pending"]

Init == InitServer /\ codec = NoCodec

\* ------------------------------------------------- the two halves of a call
\* What verify_otp does once it holds the row it loaded (found, u): the
\* write, the account and the response.  Served to completion, (found, u)
\* is the row of db itself.
VerifyCommit(c, otp, remember, found, u) ==
  LET d == VerifyDecision(found, u, otp, now)
      stale == d.write # "none" /\ ~HasRow(db, c)
      status == IF stale THEN "StaleDataError" ELSE d.status
  IN
    /\ db' = IF stale THEN db
             ELSE IF d.write = "update" THEN UpdateRow(db, c, d.patch)
             ELSE IF d.write = "delete" THEN DeleteRow(db, c)
             ELSE db
    /\ accounts' = IF status = "SUCCESS" THEN accounts \cup {c} ELSE accounts
    /\ resp' = VerifyResponse(c, otp, remember, status, now)
    /\ wrongRun' =
         IF found /\ now < u.otp_expires /\ otp # u.otp_secret
           THEN [wrongRun EXCEPT ![c] = Min(@ + 1, MAX_ATTEMPTS + 1)]
           ELSE wrongRun
    /\ lockedUntil' =
         IF found /\ now < u.otp_expires /\ otp # u.otp_secret
              /\ wrongRun[c] + 1 = MAX_ATTEMPTS
           THEN [lockedUntil EXCEPT ![c] = now + LOCK_DURATION]
           ELSE lockedUntil
    /\ consumed' = IF status = "SUCCESS"
                     THEN [consumed EXCEPT ![c] = TRUE] ELSE consumed
    /\ UNCHANGED <<now, lastIssued, unlocked, undelivered>>

\* What send_otp does once it holds the row it loaded.
SendCommit(c, channel, code, accepted, found, u) ==
  IF SendRefused(found, u, now)
    THEN /\ resp' = SendResponse(c, NoCode, "LockedOutError", "ValueError",
                                 "none", NULL)
         /\ UNCHANGED <<now, db, accounts, history>>
  ELSE IF ~found /\ HasRow(db, c)
    THEN \* the insert of a row another request has inserted meanwhile
         /\ resp' = SendResponse(c, NoCode, "IntegrityError", "Exception",
                                 "none", NULL)
         /\ UNCHANGED <<now, db, accounts, history>>
  ELSE /\ db' = Upsert(db, c, code, channel, now)
       /\ lastIssued' = [lastIssued EXCEPT ![c] = code]
       /\ wrongRun' = [wrongRun EXCEPT ![c] = 0]
       /\ lockedUntil' = [lockedUntil EXCEPT ![c] = NULL]
       /\ consumed' = [consumed EXCEPT ![c] = FALSE]
       /\ resp' = [SendResponse(c, code,
                      IF accepted THEN "OK" ELSE "DeliveryError",
                      IF accepted THEN "none" ELSE "Exception",
                      Dispatch(channel, accepted),
                      IF found THEN u.verification_attempts ELSE NULL)
                    EXCEPT !.raced = /\ found /\ HasRow(db, c)
                                     /\ TheRow(db, c).otp_secret
                                          # u.otp_secret]
       /\ unlocked' = [unlocked EXCEPT ![c] = found /\ u.is_locked]
       /\ undelivered' = [undelivered EXCEPT ![c] = ~accepted]
       /\ UNCHANGED <<now, accounts>>

\* ---------------------------------------------------------------- actions
\* POST /auth/send-otp, served to completion.  code is the code the service
\* generates, accepted tells whether the notifier accepted the message.
send_otp(raw, channel, code, accepted) ==
  LET c == Normalize(raw)
      found == HasRow(db, c)
      u == IF found THEN TheRow(db, c) ELSE NoRow
  IN /\ SendCommit(c, channel, code, accepted, found, u)
     /\ prevIssued' = IF resp'.http # 403
                        THEN [prevIssued EXCEPT ![c] = lastIssued[c]]
                        ELSE prevIssued
     /\ UNCHANGED <<inflight, codec, session, edge, office>>

\* POST /auth/verify-otp, served to completion.
verify_otp(raw, otp, remember) ==
  LET c == Normalize(raw)
      found == HasRow(db, c)
      u == IF found THEN TheRow(db, c) ELSE NoRow
  IN /\ VerifyCommit(c, otp, remember, found, u)
     /\ UNCHANGED <<inflight, prevIssued, codec, session, edge, office>>

\* The clock advances; requests are served at instants ClockStep minutes
\* apart.
Tick ==
  /\ now + ClockStep <= MaxTime
  /\ now' = now + ClockStep
  /\ UNCHANGED <<db, accounts, resp, inflight, history, prevIssued,
                 codec, session, edge, office>>

SendOtp ==
  \E raw \in RawContacts, channel \in Channels, code \in Codes,
     accepted \in BOOLEAN :
    send_otp(raw, channel, code, accepted)

VerifyOtp ==
  \E raw \in RawContacts, otp \in Codes, remember \in BOOLEAN :
    verify_otp(raw, otp, remember)

Next == SendOtp \/ VerifyOtp \/ Tick

Spec == Init /\ [][Next]_vars

\* ------------------------------------------- requests served concurrently
\* A handler is suspended at its database round trips: it loads the row
\* (await of the select), and later writes and answers (await of the
\* commit).  Other requests run in between; nothing locks the row.
FreeSlot(r) ==
  /\ inflight[r].pc = "idle"
  /\ \A q \in ReqIds : q < r => inflight[q].pc # "idle"

load_verify(r, raw, otp, remember) ==
  LET c == Normalize(raw)
      found == HasRow(db, c)
  IN /\ FreeSlot(r)
     /\ inflight' = [inflight EXCEPT ![r] =
          [pc |-> "verify", contact |-> c, otp |-> otp,
           remember |-> remember, found |-> found,
           u |-> IF found THEN TheRow(db, c) ELSE NoRow]]
     /\ UNCHANGED <<now, db, accounts, resp, history, prevIssued,
                    codec, session, edge, office>>

\* Variant: the row is loaded again, under a row lock, when the request
\* commits.
commit_verify_Reloads(r) ==
  /\ inflight[r].pc = "verify"
  /\ VerifyCommit(inflight[r].contact, inflight[r].otp, inflight[r].remember,
                  HasRow(db, inflight[r].contact),
                  IF HasRow(db, inflight[r].contact)
                    THEN TheRow(db, inflight[r].contact) ELSE NoRow)
  /\ inflight' = [inflight EXCEPT ![r] = Idle]
  /\ UNCHANGED <<prevIssued, codec, session, edge, office>>

commit_verify(r) ==
  /\ inflight[r].pc = "verify"
  /\ VerifyCommit(inflight[r].contact, inflight[r].otp, inflight[r].remember,
                  inflight[r].found, inflight[r].u)
  /\ inflight' = [inflight EXCEPT ![r] = Idle]
  /\ UNCHANGED <<prevIssued, codec, session, edge, office>>

load_send(r, raw, channel) ==
  LET c == Normalize(raw)
      found == HasRow(db, c)
  IN /\ FreeSlot(r)
     /\ inflight' = [inflight EXCEPT ![r] =
          [pc |-> "send", contact |-> c, channel |-> channel,
           found |-> found,
           u |-> IF found THEN TheRow(db, c) ELSE NoRow]]
     /\ UNCHANGED <<now, db, accounts, resp, history, prevIssued,
                    codec, session, edge, office>>

commit_send(r, code, accepted) ==
  /\ inflight[r].pc = "send"
  /\ SendCommit(inflight[r].contact, inflight[r].channel, code, accepted,
                inflight[r].found, inflight[r].u)
  /\ inflight' = [inflight EXCEPT ![r] = Idle]
  /\ UNCHANGED <<prevIssued, codec, session, edge, office>>

\* The concurrent requests carry the channel of their contact's kind, do
\* not ask for a long session, and their notifications are accepted.
ChannelOf(raw) == IF IsEmail(Normalize(raw)) THEN "email" ELSE "sms"

LoadVerify ==
  \E r \in ReqIds, raw \in RawContacts, otp \in Codes :
    load_verify(r, raw, otp, FALSE)

CommitVerify == \E r \in ReqIds : commit_verify(r)

LoadSend ==
  \E r \in ReqIds, raw \in RawContacts :
    load_send(r, raw, ChannelOf(raw))

CommitSend ==
  \E r \in ReqIds, code \in Codes : commit_send(r, code, TRUE)

ConcNext == LoadVerify \/ CommitVerify \/ LoadSend \/ CommitSend

ConcSpec == Init /\ [][ConcNext]_vars

\* The session specification serves one contact, whose codes are the first
\* code and whose notifications are delivered.
SessionContact == <<"a", "@", "b">>

\* ------------------------------------------------------ the session clock
\* Time passes until a later instant.
advance(t) ==
  /\ t > now
  /\ now' = t
  /\ hits' = [a \in Clients |-> [send |-> 0, verify |-> 0]]
  /\ reached' = [a \in Clients |-> [send |-> 0, verify |-> 0]]
  /\ UNCHANGED <<db, accounts, resp, inflight, history, prevIssued,
                 codec, session, office>>

Advance == \E t \in SessionInstants : advance(t)

\* ------------------------------------------- handlers that read the cookie
\* The response of a handler that read the auth_token cookie: error is the
\* exception decode_jwt_token raised, queried tells whether the handler got
\* as far as its first database query.
AuthResponse(op, token, http, detail, queried, error) ==
  [NoResp EXCEPT !.op = op, !.token = token, !.http = http,
     !.detail = detail, !.queried = queried, !.error = error]

\* payload.get("sub") of a decoded payload: None when the claim is absent.
HasSub(d) == d.ok /\ "sub" \in DOMAIN d.payload

\* GET /auth/me: the except clauses tell an expired token from an invalid
\* one; the HTTPException raised for a missing user is caught by the last
\* clause.
MeResponse(token, t, users) ==
  LET d == decode_jwt_token(token, t) IN
    IF token.form = "none"
      THEN AuthResponse("me", token, 401, "Not authenticated", FALSE, "none")
    ELSE IF ~d.ok
      THEN IF IsExpiredSignatureError(d.error)
             THEN AuthResponse("me", token, 401, "Token expired", FALSE,
                               d.error)
           ELSE IF IsInvalidTokenError(d.error)
             THEN AuthResponse("me", token, 401, "Invalid token", FALSE,
                               d.error)
           ELSE AuthResponse("me", token, 401, "Authentication failed",
                             FALSE, d.error)
    ELSE IF ~HasSub(d)
      THEN AuthResponse("me", token, 401, "Authentication failed", FALSE,
                        "TypeError")
    ELSE IF d.payload["sub"] \notin users
      THEN AuthResponse("me", token, 401, "Authentication failed", TRUE,
                        "none")
    ELSE AuthResponse("me", token, 200, "authenticated", TRUE, "none")

\* Variant: the user is looked up before the token is decoded.
CurrentUser_LooksUpFirst(op, token, t, users) ==
  LET d == decode_jwt_token(token, t) IN
    IF token.form = "none"
      THEN AuthResponse(op, token, 401, "Not authenticated", FALSE, "none")
    ELSE IF "sub" \in DOMAIN token.payload
              /\ token.payload["sub"] \notin users
      THEN AuthResponse(op, token, 404, "User not found", TRUE, "none")
    ELSE IF ~HasSub(d)
      THEN AuthResponse(op, token, 401, "Invalid or expired token", TRUE,
                        IF d.ok THEN "TypeError" ELSE d.error)
    ELSE AuthResponse(op, token, 200, "ok", TRUE, "none")

\* get_current_user of app.core.security, and the same steps at the head of
\* complete_onboarding: every decoding failure gives one message.
CurrentUser(op, token, t, users) ==
  LET d == decode_jwt_token(token, t) IN
    IF token.form = "none"
      THEN AuthResponse(op, token, 401, "Not authenticated", FALSE, "none")
    ELSE IF ~HasSub(d)
      THEN AuthResponse(op, token, 401, "Invalid or expired token", FALSE,
                        IF d.ok THEN "TypeError" ELSE d.error)
    ELSE IF d.payload["sub"] \notin users
      THEN AuthResponse(op, token, 404, "User not found", TRUE, "none")
    ELSE AuthResponse(op, token, 200, "ok", TRUE, "none")

\* The head of the notification handlers: no user is looked up.
NotificationUser(op, token, t) ==
  LET d == decode_jwt_token(token, t) IN
    IF token.form = "none"
      THEN AuthResponse(op, token, 401, "Not authenticated", FALSE, "none")
    ELSE IF ~HasSub(d)
      THEN AuthResponse(op, token, 401, "Invalid token", FALSE,
                        IF d.ok THEN "TypeError" ELSE d.error)
    ELSE AuthResponse(op, token, 200, "ok", TRUE, "none")

\* The subject of the token of a request that was let in.
SubOf(token) == token.payload["sub"]

\* GET /auth/me
me(token) ==
  /\ resp' = MeResponse(token, now, accounts)
  /\ UNCHANGED <<now, db, accounts, inflight, history, prevIssued,
                 codec, session, edge, office>>

\* GET /driver/dashboard, standing for the driver, officer and admin
\* handlers that call get_current_user and then read.
get_dashboard_data(token) ==
  /\ resp' = CurrentUser("dashboard", token, now, accounts)
  /\ UNCHANGED <<now, db, accounts, inflight, history, prevIssued,
                 codec, session, edge, office>>

\* POST /user/onboarding/update-user.  duplicate tells whether one of the
\* unique fields of the form is taken by another user.
complete_onboarding(token, role, duplicate) ==
  LET r == CurrentUser("onboarding", token, now, accounts)
      d == decode_jwt_token(token, now)
      onboardingStatus ==
        "onboarding" \in DOMAIN d.payload /\ d.payload["onboarding"]
  IN
    /\ resp' = IF r.http # 200 THEN r
               ELSE IF ~onboardingStatus
                 THEN [r EXCEPT !.http = 401,
                                !.detail = "You have already onboarded"]
               ELSE IF duplicate
                 THEN [r EXCEPT !.http = 409,
                                !.detail = "Registration failed"]
               ELSE [r EXCEPT !.detail = "Onboarding completed successfully"]
    /\ profile' = IF resp'.http = 200
                    THEN [profile EXCEPT ![SubOf(token)] = role]
                    ELSE profile
    /\ verification_stage' =
         IF resp'.http = 200
           THEN [verification_stage EXCEPT ![SubOf(token)] =
                   "document_pending"]
           ELSE verification_stage
    /\ is_active' = IF resp'.http = 200
                      THEN [is_active EXCEPT ![SubOf(token)] = FALSE]
                      ELSE is_active
    /\ UNCHANGED <<now, db, accounts, inflight, history, prevIssued,
                   codec, jar, kept, unread, edge, spelling, bureau,
                   notifications>>

\* PATCH /notifications/notifications/mark-read for the caller's own
\* notifications.
mark_notifications_as_read(token) ==
  LET r == NotificationUser("mark_read", token, now) IN
    /\ resp' = r
    /\ unread' = IF r.http = 200 THEN unread \ {SubOf(token)} ELSE unread
    /\ UNCHANGED <<now, db, accounts, inflight, history, prevIssued,
                   codec, jar, kept, profile, edge, office>>

\* POST /auth/logout: the response deletes the cookie in the browser.
logout ==
  /\ resp' = AuthResponse("logout", jar, 200, "Logged out", FALSE, "none")
  /\ jar' = NoToken
  /\ UNCHANGED <<now, db, accounts, inflight, history, prevIssued,
                 codec, kept, profile, unread, edge, office>>

\* NotificationService stores a notification for a user.
notify_applicant(c) ==
  /\ c \in accounts
  /\ unread' = unread \cup {c}
  /\ resp' = [NoResp EXCEPT !.op = "notify", !.contact = c]
  /\ UNCHANGED <<now, db, accounts, inflight, history, prevIssued,
                 codec, jar, kept, profile, edge, office>>

\* POST /auth/verify-otp sent by a browser: the cookie of the response goes
\* into its jar, and a copy of it is kept aside.
browser_verify_otp(raw, otp, remember) ==
  LET c == Normalize(raw)
      found == HasRow(db, c)
      u == IF found THEN TheRow(db, c) ELSE NoRow
  IN /\ VerifyCommit(c, otp, remember, found, u)
     /\ jar' = IF resp'.cookie.form # "none" THEN resp'.cookie ELSE jar
     /\ kept' = IF resp'.cookie.form # "none" THEN resp'.cookie ELSE kept
     /\ UNCHANGED <<inflight, prevIssued, codec, profile, unread, edge, office>>

\* The cookie values a request may carry: none, the jar's, the copy kept
\* aside, that copy altered or signed again under another key, or garbage.
Presented == {NoToken, Garbage, jar, kept, Tamper(kept), Forge(kept)}

SessionSendOtp == send_otp(SessionContact, "email", 1, TRUE)

SessionVerifyOtp ==
  \E remember \in BOOLEAN : browser_verify_otp(SessionContact, 1, remember)

Me == \E token \in Presented : me(token)

Dashboard == \E token \in Presented : get_dashboard_data(token)

Onboarding ==
  \E token \in Presented, duplicate \in BOOLEAN :
    complete_onboarding(token, "driver", duplicate)

MarkRead == \E token \in Presented : mark_notifications_as_read(token)

Notify == \E c \in Contacts : notify_applicant(c)

\* The session specification runs over the instants of the first hours.
SessionAdvance ==
  \E t \in {a * HalfSession : a \in 0..MaxHops} : advance(t)

SessionNext ==
  \/ SessionSendOtp \/ SessionVerifyOtp
  \/ Me \/ Dashboard \/ Onboarding \/ MarkRead
  \/ logout \/ Notify \/ SessionAdvance

SessionSpec == Init /\ [][SessionNext]_vars

\* --------------------------------------------------- officers and admins
\* users.role: DRIVER for a row on which no role was set.
RoleOf(c) == IF profile[c] = "none" THEN "driver" ELSE profile[c]

\* verify_officer: get_current_user, then the role of the user's row.
verify_officer(op, token, t) ==
  LET r == CurrentUser(op, token, t, accounts) IN
    IF r.http # 200 THEN r
    ELSE IF RoleOf(SubOf(token)) # "officer"
      THEN [r EXCEPT !.http = 403,
                     !.detail = "User is not authorized as an officer"]
    ELSE r

\* check_admin_access: get_current_user, then the role of the user's row.
check_admin_access(op, token, t) ==
  LET r == CurrentUser(op, token, t, accounts) IN
    IF r.http # 200 THEN r
    ELSE IF RoleOf(SubOf(token)) # "admin"
      THEN [r EXCEPT !.http = 403,
                     !.detail = "Access denied. Admin privileges required."]
    ELSE r

\* str.lower of the status strings a decision carries.
StatusLower(status) == IF status = "APPROVED" THEN "approved" ELSE status

\* The strings an officer's decision may carry as its status.
DecisionStatuses == AppealStatus \cup {"APPROVED", "granted"}

\* max(0, n)
Max0(n) == IF n < 0 THEN 0 ELSE n

\* make_appeal_decision: the statistics row of the appeal's user after the
\* decision; a row is added for a user who has none.
DecisionStats(old, new_status) ==
  IF old.present
    THEN [present |-> TRUE,
          pending_appeals |-> Max0(old.pending_appeals - 1),
          successful_appeals |->
            IF new_status = "approved" THEN old.successful_appeals + 1
            ELSE old.successful_appeals]
    ELSE [present |-> TRUE, pending_appeals |-> 0,
          successful_appeals |-> IF new_status = "approved" THEN 1 ELSE 0]

\* make_appeal_decision: the status of the appealed offense after the
\* decision; it is written in the branch of a user who has a statistics
\* row.
DecisionOffense(offense, old, new_status) ==
  IF old.present /\ new_status = "approved"
    THEN [offense EXCEPT !.status = "paid"]
    ELSE offense

\* Variant: a decided appeal is decided again.
DecisionOpen_Always(appeal) == TRUE

\* make_appeal_decision: the appeal is still under review.
DecisionOpen(appeal) == appeal.status = "under_review"

\* PUT /officer/appeals/{appeal_number}/decision
make_appeal_decision(token, id, status, notes) ==
  LET r == [verify_officer("decision", token, now)
              EXCEPT !.appeal = id, !.decision = status]
      new_status == StatusLower(status)
  IN
    IF r.http # 200
      THEN /\ resp' = r
           /\ UNCHANGED bureau
    ELSE IF id \notin DOMAIN appeals
      THEN /\ resp' = [r EXCEPT !.http = 404, !.detail = "Appeal not found"]
           /\ UNCHANGED bureau
    ELSE IF ~DecisionOpen(appeals[id])
      THEN /\ resp' = [r EXCEPT !.http = 400,
                                !.detail = "Appeal is not under review"]
           /\ UNCHANGED bureau
    ELSE IF new_status \notin AppealStatus
      THEN \* AppealStatus(...) raises ValueError, which nothing catches
           /\ resp' = [r EXCEPT !.http = 500,
                                !.detail = "Internal Server Error",
                                !.error = "ValueError"]
           /\ UNCHANGED bureau
    ELSE LET user == appeals[id].user_id
             old == stats[user]
         IN /\ appeals' = [appeals EXCEPT ![id] =
                  [@ EXCEPT !.status = new_status,
                            !.reviewer_id = SubOf(token),
                            !.reviewer_notes = notes,
                            !.response_date = now]]
            /\ stats' = [stats EXCEPT ![user] = DecisionStats(old, new_status)]
            /\ offenses' = [offenses EXCEPT ![appeals[id].offense_id] =
                  DecisionOffense(@, old, new_status)]
            /\ resp' = [r EXCEPT !.detail = "decided"]

\* POST /admin/appeals/{appeal_id}/review: decision is a DecisionEnum.
review_appeal(token, id, decision, notes) ==
  LET r == [check_admin_access("review", token, now)
              EXCEPT !.appeal = id, !.decision = decision]
  IN
    IF r.http # 200
      THEN /\ resp' = r
           /\ UNCHANGED bureau
    ELSE IF id \notin DOMAIN appeals
      THEN /\ resp' = [r EXCEPT !.http = 404, !.detail = "Appeal not found"]
           /\ UNCHANGED bureau
    ELSE /\ appeals' = [appeals EXCEPT ![id] =
               [@ EXCEPT !.status = decision,
                         !.reviewer_notes = notes,
                         !.response_date = now]]
         /\ resp' = [r EXCEPT !.detail = "reviewed"]
         /\ UNCHANGED <<offenses, stats>>

\* updates.status.upper().replace(' ', '_')
UpperUnderscore(status) ==
  IF status = "Under Review" THEN "UNDER_REVIEW"
  ELSE IF status = "Approved" THEN "APPROVED"
  ELSE IF status = "Rejected" THEN "REJECTED"
  ELSE IF status = "Pending Review" THEN "PENDING_REVIEW"
  ELSE status

\* PATCH /admin/appeals/{appeal_id}: status is a value of AppealStatusEnum,
\* notes a string, "none" for a field that is not sent.  The status is
\* looked up among the values of AppealStatus; the notes are written when
\* they are sent.
update_appeal(token, id, status, notes) ==
  LET r == [check_admin_access("update", token, now)
              EXCEPT !.appeal = id, !.decision = status]
  IN
    IF r.http # 200
      THEN /\ resp' = r
           /\ UNCHANGED bureau
    ELSE IF id \notin DOMAIN appeals
      THEN /\ resp' = [r EXCEPT !.http = 404, !.detail = "Appeal not found"]
           /\ UNCHANGED bureau
    ELSE IF status # "none" /\ UpperUnderscore(status) \notin AppealStatus
      THEN /\ resp' = [r EXCEPT !.http = 400, !.detail = "Invalid status"]
           /\ UNCHANGED bureau
    ELSE /\ appeals' = [appeals EXCEPT ![id] =
               [@ EXCEPT !.status = IF status # "none"
                                      THEN UpperUnderscore(status) ELSE @,
                         !.reviewer_notes = IF notes # "none"
                                              THEN notes ELSE @]]
         /\ resp' = [r EXCEPT !.detail = "Appeal updated successfully"]
         /\ UNCHANGED <<offenses, stats>>

\* The session token of a user who logged in an hour before the start, or
\* at the start, without asking for a long session.
TokenOf(c, t) ==
  create_jwt_token([sub |-> c, onboarding |-> FALSE, role |-> RoleOf(c)],
                   SESSION_TTL, t)

\* An officer, an admin and a driver have onboarded; the driver has two
\* offenses and has appealed both; the driver's statistics row, when there
\* is one, counts the two appeals.
AppealInit ==
  /\ InitWorkflow
  /\ codec = NoCodec
  /\ accounts = Users
  /\ profile = [c \in Users |->
                  IF c = OfficerUser THEN "officer"
                  ELSE IF c = AdminUser THEN "admin" ELSE "driver"]
  /\ appeals = [i \in AppealIds |->
                  [user_id |-> DriverUser, offense_id |-> i,
                   status |-> "under_review", reviewer_id |-> <<>>,
                   reviewer_notes |-> "", response_date |-> NULL]]
  /\ is_active = [c \in Users |-> FALSE]
  /\ notifications = <<>>
  /\ verification_stage = [c \in Users |-> "document_pending"]
  /\ offenses = [i \in AppealIds |-> [user_id |-> DriverUser,
                                        status |-> "unpaid"]]
  /\ stats \in {[c \in Users |->
                    IF c = DriverUser /\ present
                      THEN [present |-> TRUE, pending_appeals |-> 2,
                            successful_appeals |-> 0]
                      ELSE NoStats] : present \in BOOLEAN}

\* The requests of the officer and of the admin, each with the own token.
MakeAppealDecision ==
  \E id \in AppealIds, status \in DecisionStatuses :
    /\ make_appeal_decision(TokenOf(OfficerUser, 0), id, status,
                            "officer's notes")
    /\ UNCHANGED <<now, db, accounts, inflight, history, prevIssued,
                   codec, session, edge, spelling, registry,
                   notifications>>

ReviewAppeal ==
  \E id \in AppealIds, decision \in {"approved", "rejected"} :
    /\ review_appeal(TokenOf(AdminUser, 0), id, decision, "admin's notes")
    /\ UNCHANGED <<now, db, accounts, inflight, history, prevIssued,
                   codec, session, edge, spelling, registry,
                   notifications>>

UpdateAppeal ==
  \E id \in AppealIds, status \in {"none", "Approved", "Under Review"},
     notes \in {"none", "amended notes"} :
    /\ update_appeal(TokenOf(AdminUser, 0), id, status, notes)
    /\ UNCHANGED <<now, db, accounts, inflight, history, prevIssued,
                   codec, session, edge, spelling, registry,
                   notifications>>

\* Requests are served at the start and one clock step later.
AppealAdvance == advance(ClockStep)

AppealNext ==
  MakeAppealDecision \/ ReviewAppeal \/ UpdateAppeal \/ AppealAdvance

AppealSpec == AppealInit /\ [][AppealNext]_vars

\* ------------------------------------------------------- license actions
\* POST /admin/drivers/{driver_id}/license-action: the row is looked up
\* among the users whose role is not ADMIN; the action writes is_active
\* and, for "verify" alone, verification_stage.
perform_license_action(token, target, action) ==
  LET r == check_admin_access("license", token, now)
      known == target \in accounts /\ RoleOf(target) # "admin"
      valid == action \in {"suspend", "reinstate", "verify", "activate"}
  IN
    /\ resp' = IF r.http # 200 THEN r
               ELSE IF ~known
                 THEN [r EXCEPT !.http = 404, !.detail = "Driver not found"]
               ELSE IF ~valid
                 THEN [r EXCEPT !.http = 400, !.detail = "Invalid action"]
               ELSE [r EXCEPT !.contact = target, !.decision = action,
                              !.detail = "Driver license action done"]
    /\ is_active' =
         IF resp'.http = 200
           THEN [is_active EXCEPT ![target] = (action # "suspend")]
           ELSE is_active
    /\ verification_stage' =
         IF resp'.http = 200 /\ action = "verify"
           THEN [verification_stage EXCEPT ![target] = "fully_verified"]
           ELSE verification_stage

\* The token verify_otp minted at instant t for a user who had not yet
\* completed the profile.
OnboardingTokenOf(c, t) ==
  create_jwt_token([sub |-> c, onboarding |-> TRUE, role |-> "driver"],
                   SESSION_TTL, t)

\* The officer and the admin have onboarded; the third user has verified
\* an OTP and holds the token of a user who has yet to onboard.
RegistryInit ==
  /\ InitWorkflow
  /\ codec = NoCodec
  /\ accounts = Users
  /\ profile = [c \in Users |->
                  IF c = OfficerUser THEN "officer"
                  ELSE IF c = AdminUser THEN "admin" ELSE "none"]
  /\ appeals = <<>>
  /\ offenses = <<>>
  /\ stats = [c \in Users |-> NoStats]
  /\ is_active = [c \in Users |-> FALSE]
  /\ notifications = <<>>
  /\ verification_stage = [c \in Users |->
                             IF c = DriverUser THEN "otp_pending"
                             ELSE "document_pending"]

RegistryOnboarding ==
  \E role \in Roles :
    complete_onboarding(OnboardingTokenOf(DriverUser, 0), role, FALSE)

LicenseAction ==
  \E target \in Users,
     action \in {"suspend", "reinstate", "verify", "activate", "revoke"} :
    /\ perform_license_action(TokenOf(AdminUser, 0), target, action)
    /\ UNCHANGED <<now, db, accounts, inflight, history, prevIssued,
                   codec, session, edge, spelling, bureau,
                   notifications>>

RegistryNext == RegistryOnboarding \/ LicenseAction

RegistrySpec == RegistryInit /\ [][RegistryNext]_vars

\* --------------------------------------------- who may call which endpoint
\* The GET endpoints of the /officer router.
OfficerReads ==
  {"get_dashboard_analytics", "get_all_users", "get_all_offenses",
   "get_all_payments", "get_all_appeals", "get_appeal_details",
   "get_offense_details", "get_user_full_records"}

\* The GET endpoints of the /admin router.
AdminReads ==
  {"get_all_drivers", "get_dashboard_statistics", "get_driver_details",
   "get_driver_statistics", "get_offenses", "get_offense_details_admin",
   "get_offense_statistics", "get_appeals", "get_appeal_details_admin",
   "get_appeal_stats"}

\* The endpoints of the officer router whose signature declares
\* current_user: User = Depends(verify_officer).
DependsOnVerifyOfficer(endpoint) ==
  endpoint \in OfficerReads \ {"get_all_offenses"}

\* A GET endpoint of the officer router: the dependency, where there is
\* one, answers before the handler; the handler reads and returns rows.
officer_read(endpoint, token) ==
  /\ resp' = IF DependsOnVerifyOfficer(endpoint)
               THEN verify_officer(endpoint, token, now)
               ELSE AuthResponse(endpoint, token, 200, "ok", TRUE, "none")
  /\ UNCHANGED <<now, db, accounts, inflight, history, prevIssued,
                 codec, session, edge, office>>

\* A GET endpoint of the admin router: check_admin_access is the first
\* statement of each.
admin_read(endpoint, token) ==
  /\ resp' = check_admin_access(endpoint, token, now)
  /\ UNCHANGED <<now, db, accounts, inflight, history, prevIssued,
                 codec, session, edge, office>>

\* What a request may carry as its auth_token cookie: nothing, a string
\* that is no token, the token of each user, a token signed with another
\* key, and an officer's and an admin's token that have expired.
AccessTokens ==
  {NoToken, Garbage, Forge(TokenOf(AdminUser, 0)),
   TokenOf(OfficerUser, 0 - SESSION_TTL), TokenOf(AdminUser, 0 - SESSION_TTL)}
    \cup {TokenOf(c, 0) : c \in Users}

OfficerRead ==
  \E endpoint \in OfficerReads, token \in AccessTokens :
    officer_read(endpoint, token)

AdminRead ==
  \E endpoint \in AdminReads, token \in AccessTokens :
    admin_read(endpoint, token)

AccessDecision ==
  \E token \in AccessTokens, status \in {"approved", "rejected"} :
    /\ make_appeal_decision(token, 1, status, "officer's notes")
    /\ UNCHANGED <<now, db, accounts, inflight, history, prevIssued,
                   codec, session, edge, spelling, registry,
                   notifications>>

AccessReview ==
  \E token \in AccessTokens, decision \in {"approved", "rejected"} :
    /\ review_appeal(token, 1, decision, "admin's notes")
    /\ UNCHANGED <<now, db, accounts, inflight, history, prevIssued,
                   codec, session, edge, spelling, registry,
                   notifications>>

AccessUpdate ==
  \E token \in AccessTokens :
    /\ update_appeal(token, 1, "none", "amended notes")
    /\ UNCHANGED <<now, db, accounts, inflight, history, prevIssued,
                   codec, session, edge, spelling, registry,
                   notifications>>

AccessLicense ==
  \E token \in AccessTokens, action \in {"suspend", "verify"} :
    /\ perform_license_action(token, DriverUser, action)
    /\ UNCHANGED <<now, db, accounts, inflight, history, prevIssued,
                   codec, session, edge, spelling, bureau,
                   notifications>>

AccessNext ==
  \/ OfficerRead
  \/ AdminRead
  \/ AccessDecision
  \/ AccessReview
  \/ AccessUpdate
  \/ AccessLicense

AccessSpec == AppealInit /\ [][AccessNext]_vars

\* ------------------------------------------------- the notifications table
\* The ids the rows of the table may have, and the user each is stored for.
NotificationIds == {1, 2, 3}

RecipientOf(n) == IF n = 3 THEN OfficerUser ELSE DriverUser

\* db.add(Notification(recipient_id=...)); db.commit(): the row is unread.
store_notification(n) ==
  /\ n \notin DOMAIN notifications
  /\ notifications' =
       [m \in DOMAIN notifications \cup {n} |->
          IF m = n
            THEN [recipient_id |-> RecipientOf(n), is_read |-> FALSE,
                  read_at |-> NULL]
            ELSE notifications[m]]
  /\ resp' = [NoResp EXCEPT !.op = "notify", !.contact = RecipientOf(n),
                            !.notification = n]
  /\ UNCHANGED <<now, db, accounts, inflight, history, prevIssued,
                 codec, session, edge, spelling, bureau, registry>>

\* Variant: the WHERE clause does not compare is_read.
Matching_AlsoRead(table, user_id, ids) ==
  {n \in DOMAIN table \cap ids : table[n].recipient_id = user_id}

\* The rows an UPDATE ... WHERE id IN ids AND recipient_id = user_id AND
\* is_read = False matches.
Matching(table, user_id, ids) ==
  {n \in DOMAIN table \cap ids :
     table[n].recipient_id = user_id /\ ~table[n].is_read}

\* .values(is_read=True, read_at=datetime.utcnow()) on the matched rows.
MarkRows(table, rows, t) ==
  [n \in DOMAIN table |->
     IF n \in rows THEN [table[n] EXCEPT !.is_read = TRUE, !.read_at = t]
     ELSE table[n]]

\* PATCH /notifications/notifications/mark-read with a list of ids;
\* result.rowcount is in the message of the response.
inbox_mark_notifications_as_read(token, notification_ids) ==
  LET r == [NotificationUser("mark_ids", token, now)
              EXCEPT !.ids = notification_ids]
      rows == Matching(notifications, SubOf(token), notification_ids)
  IN
    /\ resp' = IF r.http # 200 THEN r
               ELSE [r EXCEPT !.rowcount = Cardinality(rows),
                              !.detail = "Marked notifications as read"]
    /\ notifications' = IF r.http = 200
                          THEN MarkRows(notifications, rows, now)
                          ELSE notifications
    /\ UNCHANGED <<now, db, accounts, inflight, history, prevIssued,
                   codec, session, edge, spelling, bureau, registry>>

\* PATCH /notifications/notifications/mark-all-read
mark_all_notifications_as_read(token) ==
  LET r == NotificationUser("mark_all", token, now)
      rows == Matching(notifications, SubOf(token), DOMAIN notifications)
  IN
    /\ resp' = IF r.http # 200 THEN r
               ELSE [r EXCEPT !.rowcount = Cardinality(rows),
                              !.detail = "Marked notifications as read"]
    /\ notifications' = IF r.http = 200
                          THEN MarkRows(notifications, rows, now)
                          ELSE notifications
    /\ UNCHANGED <<now, db, accounts, inflight, history, prevIssued,
                   codec, session, edge, spelling, bureau, registry>>

\* Variant: the row is selected by its id alone.
OwnNotification_AnyRecipient(table, user_id, notification_id) ==
  notification_id \in DOMAIN table

\* select(Notification).where(id == notification_id,
\*                            recipient_id == user_id) finds a row.
OwnNotification(table, user_id, notification_id) ==
  /\ notification_id \in DOMAIN table
  /\ table[notification_id].recipient_id = user_id

\* GET /notifications/notifications/{notification_id}: the row is marked
\* read when it was not.
get_single_notification(token, notification_id) ==
  LET r == [NotificationUser("get_single", token, now)
              EXCEPT !.notification = notification_id]
      found == OwnNotification(notifications, SubOf(token), notification_id)
  IN
    /\ resp' = IF r.http # 200 THEN r
               ELSE IF ~found
                 THEN [r EXCEPT !.http = 404,
                                !.detail = "Notification not found"]
               ELSE r
    /\ notifications' =
         IF resp'.http = 200 /\ ~notifications[notification_id].is_read
           THEN MarkRows(notifications, {notification_id}, now)
           ELSE notifications
    /\ UNCHANGED <<now, db, accounts, inflight, history, prevIssued,
                   codec, session, edge, spelling, bureau, registry>>

\* GET /notifications/notifications: unread_count of the response.
get_user_notifications(token) ==
  LET r == NotificationUser("list", token, now) IN
    /\ resp' = IF r.http # 200 THEN r
               ELSE [r EXCEPT !.unread_count =
                       Cardinality(Matching(notifications, SubOf(token),
                                            DOMAIN notifications))]
    /\ UNCHANGED <<now, db, accounts, inflight, history, prevIssued,
                   codec, session, edge, office>>

\* A driver, an officer and an admin have onboarded and are logged in;
\* no notification has been stored yet.
InboxInit ==
  /\ InitWorkflow
  /\ codec = NoCodec
  /\ accounts = Users
  /\ profile = [c \in Users |->
                  IF c = OfficerUser THEN "officer"
                  ELSE IF c = AdminUser THEN "admin" ELSE "driver"]
  /\ appeals = <<>>
  /\ offenses = <<>>
  /\ stats = [c \in Users |-> NoStats]
  /\ is_active = [c \in Users |-> FALSE]
  /\ verification_stage = [c \in Users |-> "document_pending"]
  /\ notifications = <<>>

\* The cookies the requests for notifications carry.
InboxTokens ==
  {NoToken, Garbage, TokenOf(DriverUser, 0), TokenOf(OfficerUser, 0)}

StoreNotification == \E n \in NotificationIds : store_notification(n)

InboxMarkRead ==
  \E token \in InboxTokens, notification_ids \in SUBSET NotificationIds :
    inbox_mark_notifications_as_read(token, notification_ids)

InboxMarkAllRead ==
  \E token \in InboxTokens : mark_all_notifications_as_read(token)

InboxGetSingle ==
  \E token \in InboxTokens, notification_id \in NotificationIds :
    get_single_notification(token, notification_id)

InboxList == \E token \in InboxTokens : get_user_notifications(token)

InboxAdvance == advance(ClockStep) \/ advance(2 * ClockStep)

InboxNext ==
  \/ StoreNotification
  \/ InboxMarkRead
  \/ InboxMarkAllRead
  \/ InboxGetSingle
  \/ InboxList
  \/ InboxAdvance

InboxSpec == InboxInit /\ [][InboxNext]_vars

\* ------------------------------------------------ the routes and the limiter
\* The routes of a path in the order the decorators registered them.  On
\* send_otp the innermost decorator, router.post, registers the bare
\* function; limiter.limit then wraps it and the outer router.post
\* registers the wrapper.  verify_otp is wrapped first and registered once.
Routes(path) ==
  IF path = "send"
    THEN << [endpoint |-> "send_otp", limited |-> FALSE],
            [endpoint |-> "send_otp", limited |-> TRUE] >>
    ELSE << [endpoint |-> "verify_otp", limited |-> TRUE] >>

\* The router serves a request with the first route that matches.
Resolve(path) == Head(Routes(path))

\* limiter.limit("3/minute") keyed by get_remote_address: the wrapper
\* raises RateLimitExceeded once the address has had its hits this minute.
LimitExceeded(a, path) ==
  Resolve(path).limited /\ hits[a][path] >= RATE_LIMIT

Hit(a, path) ==
  IF Resolve(path).limited THEN [hits EXCEPT ![a][path] = @ + 1] ELSE hits

RateLimited(op) ==
  [NoResp EXCEPT !.op = op, !.status = "RateLimitExceeded", !.http = 429,
     !.detail = "Rate limit exceeded"]

\* POST /auth/send-otp from client address a.
post_send_otp(a, raw, channel, code, accepted) ==
  LET c == Normalize(raw)
      found == HasRow(db, c)
      u == IF found THEN TheRow(db, c) ELSE NoRow
  IN IF LimitExceeded(a, "send")
       THEN /\ resp' = RateLimited("send")
            /\ UNCHANGED <<now, db, accounts, inflight, history, prevIssued,
                           codec, session, edge, office>>
       ELSE /\ reached[a].send < MaxBurst
            /\ SendCommit(c, channel, code, accepted, found, u)
            /\ hits' = Hit(a, "send")
            /\ reached' = [reached EXCEPT ![a].send = @ + 1]
            /\ UNCHANGED <<inflight, prevIssued, codec, session, office>>

\* POST /auth/verify-otp from client address a.
post_verify_otp(a, raw, otp, remember) ==
  LET c == Normalize(raw)
      found == HasRow(db, c)
      u == IF found THEN TheRow(db, c) ELSE NoRow
  IN IF LimitExceeded(a, "verify")
       THEN /\ resp' = RateLimited("verify")
            /\ UNCHANGED <<now, db, accounts, inflight, history, prevIssued,
                           codec, session, edge, office>>
       ELSE /\ reached[a].verify < MaxBurst
            /\ VerifyCommit(c, otp, remember, found, u)
            /\ hits' = Hit(a, "verify")
            /\ reached' = [reached EXCEPT ![a].verify = @ + 1]
            /\ UNCHANGED <<inflight, prevIssued, codec, session, office>>

\* The requests of the edge specification are for one contact, with the
\* first code generated, the notification delivered and a short session.
PostSendOtp ==
  \E a \in Clients : post_send_otp(a, SessionContact, "email", 1, TRUE)

PostVerifyOtp ==
  \E a \in Clients, otp \in Codes :
    post_verify_otp(a, SessionContact, otp, FALSE)

\* A later minute begins.
EdgeAdvance ==
  \E t \in {k * ClockStep : k \in 0..(MaxTime \div ClockStep)} : advance(t)

EdgeNext == PostSendOtp \/ PostVerifyOtp \/ EdgeAdvance

EdgeSpec == Init /\ [][EdgeNext]_vars

\* ------------------------------------------------ contacts as they are typed
\* POST /auth/send-otp with the contact string raw in the body.
typed_send_otp(raw, channel, code) ==
  LET c == Normalize(raw)
      found == HasRow(db, c)
      u == IF found THEN TheRow(db, c) ELSE NoRow
      f == PersonOf(raw)
  IN /\ SendCommit(c, channel, code, TRUE, found, u)
     /\ typed' = raw
     /\ famCode' = IF resp'.http = 200
                     THEN [famCode EXCEPT ![f] = code] ELSE famCode
     /\ famWrong' = IF resp'.http = 200
                      THEN [famWrong EXCEPT ![f] = 0] ELSE famWrong
     /\ UNCHANGED <<inflight, prevIssued, codec, session, edge, bureau,
                    registry,
                    notifications>>

\* POST /auth/verify-otp with the contact string raw in the body.
typed_verify_otp(raw, otp) ==
  LET c == Normalize(raw)
      found == HasRow(db, c)
      u == IF found THEN TheRow(db, c) ELSE NoRow
      f == PersonOf(raw)
  IN /\ VerifyCommit(c, otp, FALSE, found, u)
     /\ typed' = raw
     /\ famCode' = IF famCode[f] # NoCode /\ otp = famCode[f]
                        /\ famWrong[f] < MAX_ATTEMPTS
                     THEN [famCode EXCEPT ![f] = NoCode] ELSE famCode
     /\ famWrong' = IF famCode[f] # NoCode /\ otp # famCode[f]
                      THEN [famWrong EXCEPT ![f] = Min(@ + 1, MAX_ATTEMPTS)]
                      ELSE famWrong
     /\ UNCHANGED <<inflight, prevIssued, codec, session, edge, bureau,
                    registry,
                    notifications>>

TypedSendOtp ==
  \E raw \in AllRawContacts, code \in Codes :
    typed_send_otp(raw, ChannelOf(raw), code)

TypedVerifyOtp ==
  \E raw \in AllRawContacts, otp \in Codes : typed_verify_otp(raw, otp)

SpellingNext == TypedSendOtp \/ TypedVerifyOtp

SpellingSpec == Init /\ [][SpellingNext]_vars

\* ------------------------------------------------- two contacts side by side
\* An email address and a phone number go through the workflow at one
\* instant, each in one spelling, with the first code; the browser also
\* calls the handlers that read its cookie, and logs out.
FrameContacts == {<<"a", "@", "b">>, <<"+", "2", "3">>}

FrameSendOtp ==
  \E raw \in FrameContacts : send_otp(raw, ChannelOf(raw), 1, TRUE)

FrameVerifyOtp ==
  \E raw \in FrameContacts, otp \in Codes :
    browser_verify_otp(raw, otp, FALSE)

FrameMe == me(jar)

FrameDashboard == get_dashboard_data(jar)

FrameOnboarding == complete_onboarding(jar, "driver", FALSE)

FrameNext ==
  \/ FrameSendOtp \/ FrameVerifyOtp
  \/ FrameMe \/ FrameDashboard \/ FrameOnboarding \/ logout

FrameSpec == Init /\ [][FrameNext]_vars

\* ------------------------------------------- the codec applied to its inputs
\* The state of the server with every table empty, and a claim set and a
\* lifetime to make a token of.
CodecInit ==
  /\ InitServer
  /\ codec \in {[NoCodec EXCEPT !.pc = "start", !.data = d, !.ttl = l] :
                  d \in ClaimSets, l \in {SESSION_TTL, REMEMBER_TTL}}

\* create_jwt_token(data, ttl) is called.
codec_encode ==
  /\ codec.pc = "start"
  /\ codec' = [codec EXCEPT !.pc = "issued", !.iat = now,
                 !.token = create_jwt_token(codec.data, codec.ttl, now)]
  /\ UNCHANGED <<now, db, accounts, resp, inflight, history, prevIssued,
                 session, edge, office>>

\* decode_jwt_token(token) is called; the first outcome is remembered.
codec_decode ==
  /\ codec.pc \in {"issued", "decoded"}
  /\ LET d == decode_jwt_token(codec.token, now)
         o == [at |-> now, ok |-> d.ok, error |-> d.error,
               payload |-> d.payload]
     IN codec' = [codec EXCEPT !.pc = "decoded", !.out = o,
                    !.first = IF codec.pc = "issued" THEN o ELSE @]
  /\ UNCHANGED <<now, db, accounts, resp, inflight, history, prevIssued,
                 session, edge, office>>

CodecNext == codec_encode \/ codec_decode \/ Advance

CodecSpec == CodecInit /\ [][CodecNext]_vars

\* ================================================================ claims
\* The row of contact c before a step, when there is one.
Row(c) == TheRow(db, c)

\* The instant the code of the latest send_otp expires, NULL once the row
\* is gone.
lastIssuedExpiry(c) == IF HasRow(db, c) THEN Row(c).otp_expires ELSE NULL

\* A step of Spec that serves a verify_otp request: the request carries the
\* contact resp'.contact and the code resp'.otp.
VerifyStep == resp'.op = "verify" /\ now' = now /\ inflight' = inflight

\* A step of Spec that serves a send_otp request for resp'.contact.
SendStep == resp'.op = "send" /\ now' = now /\ inflight' = inflight

\* C1: after MAX_ATTEMPTS wrong codes submitted before expiry since the
\* latest send_otp, the MAX_ATTEMPTS-th verify_otp returns MAX_ATTEMPTS
\* (403) and locks the row until now + LOCK_DURATION; every later verify_otp
\* before that instant returns LOCKED (403) and changes nothing, whatever
\* code it carries.
C1_LockoutAfterMaxAttempts ==
  [][VerifyStep =>
       LET c == resp'.contact IN
         /\ (wrongRun[c] = MAX_ATTEMPTS - 1 /\ wrongRun'[c] = MAX_ATTEMPTS)
              => /\ resp'.status = "MAX_ATTEMPTS"
                 /\ resp'.http = 403
                 /\ resp'.detail = "Too many failed attempts"
                 /\ HasRow(db', c)
                 /\ TheRow(db', c).is_locked
                 /\ TheRow(db', c).lock_expires = now + LOCK_DURATION
         /\ (wrongRun[c] >= MAX_ATTEMPTS /\ now < lockedUntil[c])
              => /\ resp'.status = "LOCKED"
                 /\ resp'.http = 403
                 /\ resp'.detail = "You are temporarily locked"
                 /\ resp'.cookie = NoToken
                 /\ db' = db
                 /\ accounts' = accounts
    ]_vars

\* A locked contact was answered LOCKED although it submitted the stored
\* code.
C1_Witness ==
  \E c \in Contacts :
    /\ resp.op = "verify" /\ resp.contact = c /\ resp.status = "LOCKED"
    /\ wrongRun[c] = MAX_ATTEMPTS
    /\ now < lockedUntil[c]
    /\ HasRow(db, c)
    /\ resp.otp = Row(c).otp_secret
    /\ Row(c).lock_expires = lockedUntil[c]

\* C2: verify_otp returns SUCCESS, sets the cookie or creates an account
\* only if a row exists for the contact, the row is not locked, now is
\* before otp_expires and the submitted code is the stored code; no other
\* request mints a token or creates an account.
C2_SuccessOnlyIfValid ==
  [][/\ VerifyStep =>
          LET c == resp'.contact IN
            (\/ resp'.status = "SUCCESS"
             \/ resp'.http = 200
             \/ resp'.cookie # NoToken
             \/ accounts' # accounts)
              => /\ HasRow(db, c)
                 /\ ~Row(c).is_locked
                 /\ now < Row(c).otp_expires
                 /\ resp'.otp = Row(c).otp_secret
     /\ ~VerifyStep => /\ accounts' = accounts
                       /\ resp'.cookie \in {resp.cookie, NoToken}
     /\ SendStep => resp'.cookie = NoToken
    ]_vars

\* A verification succeeded: the account exists and the cookie carries a
\* token for it.
C2_Witness ==
  \E c \in Contacts :
    /\ resp.op = "verify" /\ resp.contact = c /\ resp.status = "SUCCESS"
    /\ resp.cookie.payload.sub = c
    /\ c \in accounts

C4_ExpiredChangesNothing ==
  [][VerifyStep =>
       LET c == resp'.contact IN
         (HasRow(db, c) /\ now >= Row(c).otp_expires)
           => /\ db' = db
              /\ resp'.status \notin {"CODE_INVALID", "MAX_ATTEMPTS"}
    ]_vars

\* A wrong code submitted after expiry on a row one attempt short of the
\* lock: the row is still unlocked with the same count.
C4_Witness ==
  \E c \in Contacts :
    /\ resp.op = "verify" /\ resp.contact = c
    /\ resp.status = "CODE_EXPIRED"
    /\ HasRow(db, c)
    /\ resp.otp # Row(c).otp_secret
    /\ Row(c).verification_attempts = MAX_ATTEMPTS - 1
    /\ ~Row(c).is_locked

\* C5: a verify_otp that returns SUCCESS carries the code written by the
\* latest send_otp for the contact; the code of an earlier send_otp that
\* differs from it does not validate.
C5_OnlyLatestCodeValidates ==
  /\ \A c \in Contacts : HasRow(db, c) => Row(c).otp_secret = lastIssued[c]
  /\ (resp.op = "verify" /\ resp.status = "SUCCESS")
       => resp.otp = lastIssued[resp.contact]

\* After two send_otp calls with different codes, the first code was
\* submitted in time and rejected as invalid.
C5_Witness ==
  \E c \in Contacts :
    /\ resp.op = "verify" /\ resp.contact = c
    /\ prevIssued[c] # NoCode
    /\ prevIssued[c] # lastIssued[c]
    /\ resp.otp = prevIssued[c]
    /\ resp.status = "CODE_INVALID"

\* C6: send_otp for a contact whose row is locked with now < lock_expires
\* fails with the locked-out error (403), leaves the table as it is and
\* dispatches no notification.
C6_SendRefusedWhileLocked ==
  [][SendStep =>
       LET c == resp'.contact IN
         (HasRow(db, c) /\ Row(c).is_locked /\ now < Row(c).lock_expires)
           => /\ resp'.status = "LockedOutError"
              /\ resp'.http = 403
              /\ resp'.dispatch = "none"
              /\ db' = db
    ]_vars

\* A send_otp was refused with 403 while the lock was running.
C6_Witness ==
  \E c \in Contacts :
    /\ resp.op = "send" /\ resp.contact = c
    /\ resp.http = 403
    /\ HasRow(db, c)
    /\ Row(c).is_locked
    /\ now < Row(c).lock_expires

\* C7: send_otp for a locked contact at or after lock_expires is not
\* refused (200 when the notifier accepts the message), writes the new
\* code, resets verification_attempts to 0 and clears is_locked; a
\* verify_otp with that code before it expires then returns SUCCESS.
C7_SendAfterLockExpiry ==
  [][/\ SendStep =>
          LET c == resp'.contact IN
            (HasRow(db, c) /\ Row(c).is_locked /\ now >= Row(c).lock_expires)
              => /\ resp'.http # 403
                 /\ resp'.dispatch = "sent" => resp'.http = 200
                 /\ resp'.otp \in Codes
                 /\ HasRow(db', c)
                 /\ TheRow(db', c).otp_secret = resp'.otp
                 /\ TheRow(db', c).verification_attempts = 0
                 /\ ~TheRow(db', c).is_locked
     /\ VerifyStep =>
          LET c == resp'.contact IN
            (unlocked[c] /\ ~consumed[c] /\ wrongRun[c] < MAX_ATTEMPTS
               /\ resp'.otp = lastIssued[c] /\ now < lastIssuedExpiry(c))
              => resp'.status = "SUCCESS"
    ]_vars

\* The code sent after the lock had run out was verified.
C7_Witness ==
  \E c \in Contacts :
    /\ resp.op = "verify" /\ resp.contact = c /\ resp.status = "SUCCESS"
    /\ unlocked[c]
    /\ consumed[c]
    /\ resp.otp = lastIssued[c]

\* C8: a verify_otp that returns SUCCESS removes the row, and until the
\* next send_otp every verify_otp for the contact is answered NOT_FOUND
\* (404) and mints no token.
C8_CodeVerifiesOnce ==
  [][VerifyStep =>
       LET c == resp'.contact IN
         /\ resp'.status = "SUCCESS" => ~HasRow(db', c)
         /\ consumed[c] => /\ resp'.status = "NOT_FOUND"
                           /\ resp'.http = 404
                           /\ resp'.cookie = NoToken
                           /\ accounts' = accounts
    ]_vars

\* The code that had just been verified was submitted again and not found.
C8_Witness ==
  \E c \in Contacts :
    /\ resp.op = "verify" /\ resp.contact = c /\ resp.status = "NOT_FOUND"
    /\ consumed[c]
    /\ resp.otp = lastIssued[c]

\* C9: every send_otp that is not refused leaves exactly one row for the
\* normalized contact, holding the generated code, otp_expires = now +
\* OTP_TTL, verification_attempts = 0 and is_locked = FALSE.
C9_SendLeavesFreshRow ==
  [][SendStep =>
       LET c == resp'.contact IN
         resp'.http # 403
           => /\ c \in Contacts
              /\ resp'.otp \in Codes
              /\ Cardinality(RowsOf(db', c)) = 1
              /\ TheRow(db', c).otp_secret = resp'.otp
              /\ TheRow(db', c).otp_expires = now + OTP_TTL
              /\ TheRow(db', c).verification_attempts = 0
              /\ TheRow(db', c).is_locked = FALSE
    ]_vars

\* A send_otp answered 200 replaced a row that held failed attempts.
C9_Witness ==
  \E c \in Contacts :
    /\ resp.op = "send" /\ resp.contact = c /\ resp.http = 200
    /\ resp.prior > 0 /\ resp.prior < MAX_ATTEMPTS
    /\ Cardinality(RowsOf(db, c)) = 1
    /\ Row(c).verification_attempts = 0

\* C10: a verify_otp with a wrong code writes the attempt count it loaded
\* plus one, whatever other requests have written since it loaded the row,
\* so increments of concurrent requests are lost.
C10_LostUpdate ==
  [][\A r \in ReqIds :
       (/\ inflight[r].pc = "verify"
        /\ inflight'[r].pc = "idle"
        /\ resp'.status \in {"CODE_INVALID", "MAX_ATTEMPTS"})
         => /\ inflight[r].found
            /\ HasRow(db', inflight[r].contact)
            /\ TheRow(db', inflight[r].contact).verification_attempts
                 = inflight[r].u.verification_attempts + 1
    ]_vars

\* Since the latest send_otp the contact has been answered more than
\* MAX_ATTEMPTS wrong-code verifications and its row is not locked.
C10_Witness ==
  \E c \in Contacts :
    /\ wrongRun[c] > MAX_ATTEMPTS
    /\ HasRow(db, c)
    /\ Row(c).otp_secret = lastIssued[c]
    /\ resp.otp # lastIssued[c]
    /\ ~Row(c).is_locked
    /\ Row(c).verification_attempts < MAX_ATTEMPTS
    /\ resp.op = "verify" /\ resp.status = "CODE_INVALID"

\* A step of ConcSpec in which a send_otp request writes and answers.
SendCommitStep ==
  /\ resp'.op = "send"
  /\ \E r \in ReqIds : inflight[r].pc = "send" /\ inflight'[r].pc = "idle"

C12_TokenRoundTrip ==
  codec.pc = "decoded" =>
    IF codec.out.at < codec.iat + codec.ttl
      THEN /\ codec.out.ok
           /\ \A k \in DOMAIN codec.data :
                /\ k \in DOMAIN codec.out.payload
                /\ codec.out.payload[k] = codec.data[k]
      ELSE /\ ~codec.out.ok
           /\ codec.out.error = "ExpiredSignatureError"

\* One token was decoded twice: in time, giving back the claims, and at
\* the very instant its lifetime ended, giving the expiry error.
C12_Witness ==
  /\ codec.pc = "decoded"
  /\ codec.first.ok
  /\ codec.first.payload["sub"] = codec.data.sub
  /\ codec.first.at > codec.iat
  /\ ~codec.out.ok
  /\ codec.out.at = codec.iat + codec.ttl
  /\ codec.out.error = "ExpiredSignatureError"

\* A token the server signed.
Genuine(token) ==
  token.form = "jwt" /\ token.sig = Sign(token.payload, SECRET_KEY)

\* now >= expires_at of the token at instant t.
ExpiredAt(token, t) ==
  "exp" \in DOMAIN token.payload /\ token.payload["exp"] <= Timestamp(t)

\* The handlers that read the auth_token cookie.
AuthOps == {"me", "dashboard", "onboarding", "mark_read"}

\* A step that serves a request of one of these handlers; the request
\* carries the cookie resp'.token.
AuthStep == resp'.op \in AuthOps /\ now' = now

\* C13: a request whose auth_token cookie is expired (now >= exp), is not
\* signed with the server's key or is no token at all is answered 401
\* before the handler queries the database, and changes no table.
C13_BadTokenRejected ==
  [][AuthStep =>
       LET token == resp'.token IN
         (token.form # "none" /\ (~Genuine(token) \/ ExpiredAt(token, now)))
           => /\ resp'.http = 401
              /\ ~resp'.queried
              /\ UNCHANGED <<db, accounts, profile, unread>>
    ]_vars

\* The mark-read handler refused the expired token of a user who has an
\* unread notification, which is still unread.
C13_Witness ==
  /\ resp.op = "mark_read"
  /\ resp.http = 401
  /\ Genuine(resp.token)
  /\ ExpiredAt(resp.token, now)
  /\ SubOf(resp.token) \in unread

\* The message a handler answers a cookie that is no token with.
InvalidTokenDetail(op) ==
  IF op = "me" THEN MeResponse(Garbage, now, accounts).detail
  ELSE IF op = "mark_read" THEN NotificationUser(op, Garbage, now).detail
  ELSE CurrentUser(op, Garbage, now, accounts).detail

\* C14: decoding reports an expired token and an invalid token as two
\* different errors, and the message a handler answers an expired token
\* with is not the message it answers an invalid token with.
C14_DistinctMessages ==
  (resp.op \in AuthOps /\ resp.error = "ExpiredSignatureError")
    => /\ decode_jwt_token(Garbage, now).error # resp.error
       /\ resp.detail # InvalidTokenDetail(resp.op)

\* C15: the token of a successful verify_otp is issued at the instant of
\* the call and expires 30 days (2592000 seconds) later when the request
\* asked to be remembered and one hour (3600 seconds) later when it did
\* not; the max-age of the auth_token cookie is the lifetime of the token
\* it carries.
C15_TokenAndCookieLifetime ==
  [][(VerifyStep /\ resp'.status = "SUCCESS") =>
       LET token == resp'.cookie IN
         /\ Genuine(token)
         /\ token.payload["iat"] = Timestamp(now)
         /\ token.payload["exp"] - token.payload["iat"]
              = IF resp'.remember THEN 2592000 ELSE 3600
         /\ resp'.max_age = token.payload["exp"] - token.payload["iat"]
    ]_vars

\* A verification that asked to be remembered succeeded after the clock
\* had moved: the cookie carries a 30-day token and has a 30-day max-age.
C15_Witness ==
  /\ resp.op = "verify" /\ resp.status = "SUCCESS"
  /\ resp.remember
  /\ now > 0
  /\ resp.cookie.payload["iat"] = Timestamp(now)
  /\ resp.cookie.payload["exp"] = Timestamp(now) + 2592000
  /\ resp.max_age = 2592000

\* The HTTP status the interface gives for a verification outcome.
ExpectedHttp(status) ==
  IF status = "SUCCESS" THEN 200
  ELSE IF status \in {"LOCKED", "MAX_ATTEMPTS"} THEN 403
  ELSE IF status \in {"CODE_EXPIRED", "CODE_INVALID"} THEN 400
  ELSE IF status = "NOT_FOUND" THEN 404
  ELSE 500

\* C16: the response of verify-otp carries the one HTTP status of its
\* outcome (SUCCESS 200, LOCKED and MAX_ATTEMPTS 403, CODE_EXPIRED and
\* CODE_INVALID 400, NOT_FOUND 404, any other value 500), and it sets the
\* auth_token cookie exactly when the outcome is SUCCESS.
C16_OutcomeToHttp ==
  /\ resp.op = "verify"
       => /\ resp.http = ExpectedHttp(resp.status)
          /\ (resp.cookie # NoToken) <=> (resp.status = "SUCCESS")
          /\ (resp.max_age # 0) <=> (resp.status = "SUCCESS")
  /\ \A other \in {"none", "StaleDataError", "PENDING"} :
       VerifyOtpResponse(other).code = 500 /\ ~SetsCookie(other)

\* No pending verification was found for the contact: 404 and no cookie.
C16_Witness ==
  /\ resp.op = "verify"
  /\ resp.status = "NOT_FOUND"
  /\ resp.http = 404
  /\ resp.cookie = NoToken
  /\ ~HasRow(db, resp.contact)

\* C17: a send_otp whose notification dispatch raises is answered 500 and
\* has written its code with a fresh expiry; a verify_otp with that code
\* before it expires, the row being neither consumed nor locked by wrong
\* codes since, returns SUCCESS.
C17_UndeliveredCodeStaysValid ==
  [][/\ SendStep =>
          LET c == resp'.contact IN
            resp'.dispatch = "raised"
              => /\ resp'.status = "DeliveryError"
                 /\ resp'.http = 500
                 /\ HasRow(db', c)
                 /\ TheRow(db', c).otp_secret = resp'.otp
                 /\ TheRow(db', c).otp_expires = now + OTP_TTL
     /\ VerifyStep =>
          LET c == resp'.contact IN
            (undelivered[c] /\ ~consumed[c] /\ wrongRun[c] < MAX_ATTEMPTS
               /\ resp'.otp = lastIssued[c] /\ now < lastIssuedExpiry(c))
              => resp'.status = "SUCCESS"
    ]_vars

\* The code of a send_otp that was answered 500 was verified.
C17_Witness ==
  \E c \in Contacts :
    /\ resp.op = "verify" /\ resp.contact = c /\ resp.status = "SUCCESS"
    /\ undelivered[c]
    /\ consumed[c]
    /\ resp.otp = lastIssued[c]
    /\ c \in accounts

\* C18: a send_otp or verify_otp request leaves the rows of every contact
\* other than its own as they are, and a request of any other handler
\* (/auth/me, the handlers behind get_current_user, onboarding, logout)
\* leaves the whole unverified_users table as it is.
C18_PendingRowFrame ==
  [][/\ resp'.op \in {"send", "verify"}
          => \A d \in Contacts \ {resp'.contact} :
               RowsOf(db', d) = RowsOf(db, d)
     /\ resp'.op \notin {"send", "verify"} => db' = db
    ]_vars

\* The email contact has just been locked by its fifth wrong code while
\* the phone contact holds a row without a failed attempt.
C18_Witness ==
  /\ resp.op = "verify" /\ resp.contact = <<"a", "@", "b">>
  /\ resp.status = "MAX_ATTEMPTS"
  /\ HasRow(db, <<"2", "3">>)
  /\ Row(<<"2", "3">>).verification_attempts = 0
  /\ ~Row(<<"2", "3">>).is_locked
  /\ Row(<<"a", "@", "b">>).is_locked
  /\ <<"2", "3">> \notin accounts

\* C19: logout answers 200 and changes nothing on the server; before and
\* after it, a request carrying a token the server signed is let in by
\* every handler that reads the cookie while now < exp, and is answered 401
\* for an expired token from exp on.
C19_LogoutDoesNotRevoke ==
  [][/\ resp'.op = "logout"
          => /\ resp'.http = 200
             /\ UNCHANGED <<db, accounts, profile, unread, kept>>
     /\ AuthStep =>
          LET token == resp'.token IN
            Genuine(token)
              => IF ExpiredAt(token, now)
                   THEN /\ resp'.http = 401
                        /\ resp'.error = "ExpiredSignatureError"
                   ELSE /\ resp'.error = "none"
                        /\ resp'.queried
                        /\ resp'.op \in {"me", "dashboard", "mark_read"}
                             => resp'.http = 200
    ]_vars

\* The browser has logged out, and the copy of the token it had been
\* issued earlier was accepted afterwards, before it expired.
C19_Witness ==
  /\ jar = NoToken
  /\ Genuine(kept)
  /\ resp.op \in AuthOps
  /\ resp.token = kept
  /\ resp.http = 200
  /\ Timestamp(now) > kept.payload["iat"]
  /\ ~ExpiredAt(kept, now)

\* C20: in every minute and for every client address, at most RATE_LIMIT
\* send-otp requests and at most RATE_LIMIT verify-otp requests get as far
\* as the OTP service; a request beyond that is answered by the limiter
\* and leaves the pending verifications untouched.
C20_RateLimited ==
  \A a \in Clients :
    /\ reached[a].send <= RATE_LIMIT
    /\ reached[a].verify <= RATE_LIMIT

\* A step of SpellingSpec that serves a verify_otp request typed as typed'.
TypedVerifyStep == resp'.op = "verify" /\ typed' # <<>>

\* C21: normalizing a contact string twice gives what normalizing it once
\* gives, and the spellings of one person's contact address one pending
\* verification: the code of the latest send_otp under any spelling
\* verifies under every spelling, and wrong codes under any spelling count
\* toward the one attempt count and lock.
C21_SpellingsShareRow ==
  [][TypedVerifyStep =>
       LET f == PersonOf(typed')
           c == Normalize(typed')
       IN /\ Normalize(c) = c
          /\ resp'.contact = c
          /\ (famCode[f] # NoCode /\ famWrong[f] < MAX_ATTEMPTS
                /\ resp'.otp = famCode[f])
               => /\ resp'.status = "SUCCESS"
                  /\ ~HasRow(db', c)
          /\ (famCode[f] # NoCode /\ famWrong[f] < MAX_ATTEMPTS
                /\ resp'.otp # famCode[f])
               => /\ resp'.status =
                       IF famWrong[f] + 1 = MAX_ATTEMPTS
                         THEN "MAX_ATTEMPTS" ELSE "CODE_INVALID"
                  /\ HasRow(db', c)
                  /\ TheRow(db', c).verification_attempts = famWrong[f] + 1
                  /\ TheRow(db', c).is_locked
                       = (famWrong[f] + 1 = MAX_ATTEMPTS)
          /\ (famCode[f] # NoCode /\ famWrong[f] >= MAX_ATTEMPTS)
               => resp'.status = "LOCKED"]_vars

\* C21 witness: a contact was locked by a wrong code typed in a spelling
\* other than the one its row is keyed by.
C21_Witness ==
  /\ resp.op = "verify"
  /\ resp.status = "MAX_ATTEMPTS"
  /\ typed # resp.contact
  /\ famWrong[PersonOf(typed)] = MAX_ATTEMPTS

\* A step of AppealSpec that serves make_appeal_decision for the appeal
\* resp'.appeal, asked by an officer.
DecisionStep ==
  resp'.op = "decision" /\ resp'.appeal \in DOMAIN appeals /\ now' = now

\* The appeals of user u that are under review.
UnderReview(table, u) ==
  {i \in DOMAIN table :
     table[i].user_id = u /\ table[i].status = "under_review"}

\* C22: an officer's decision is accepted only for an appeal that is
\* UNDER_REVIEW; for an appeal in any other status make_appeal_decision
\* answers 400 and leaves the appeal, the offense and the statistics as
\* they were.
C22_DecisionOnlyUnderReview ==
  [][DecisionStep =>
       LET id == resp'.appeal IN
         /\ appeals[id].status # "under_review"
              => /\ resp'.http = 400
                 /\ resp'.detail = "Appeal is not under review"
                 /\ appeals' = appeals
                 /\ offenses' = offenses
                 /\ stats' = stats
         /\ resp'.http = 200 => appeals[id].status = "under_review"]_vars

\* C22 witness: a decision on an appeal that had been approved was refused.
C22_Witness ==
  /\ resp.op = "decision"
  /\ resp.http = 400
  /\ resp.appeal \in DOMAIN appeals
  /\ appeals[resp.appeal].status = "approved"

\* C23: the status, the reviewer notes and the response date of an appeal
\* that is APPROVED or REJECTED are never changed by a later decision,
\* review or update.
C23_DecidedAppealIsFinal ==
  [][\A i \in DOMAIN appeals :
       appeals[i].status \in {"approved", "rejected"}
         => /\ appeals'[i].status = appeals[i].status
            /\ appeals'[i].reviewer_notes = appeals[i].reviewer_notes
            /\ appeals'[i].response_date = appeals[i].response_date]_vars

\* C24: pending_appeals is never negative, and when it equals the number
\* of the user's appeals under review before a decision or review, it
\* equals that number afterwards.
C24_PendingAppealsCounted ==
  [][\A u \in Users :
       /\ stats'[u].pending_appeals >= 0
       /\ (/\ stats[u].present
           /\ stats[u].pending_appeals = Cardinality(UnderReview(appeals, u)))
            => /\ stats'[u].present
               /\ stats'[u].pending_appeals
                    = Cardinality(UnderReview(appeals', u))]_vars

\* C25: a decision that sets an appeal to APPROVED sets the appealed
\* offense to PAID and adds one to the user's successful_appeals, whether
\* or not the user had a statistics row; any other decision leaves both as
\* they were.
C25_ApprovalWaivesOffense ==
  [][(DecisionStep /\ resp'.http = 200) =>
       LET id == resp'.appeal
           u == appeals[id].user_id
           o == appeals[id].offense_id
       IN IF appeals'[id].status = "approved"
            THEN /\ offenses'[o].status = "paid"
                 /\ stats'[u].successful_appeals
                      = stats[u].successful_appeals + 1
            ELSE /\ offenses'[o] = offenses[o]
                 /\ stats'[u].successful_appeals
                      = stats[u].successful_appeals]_vars

\* C27: once a user has completed onboarding, a further complete_onboarding
\* request of that user, with any token the user holds, is answered 401
\* "You have already onboarded" and leaves the user's role, is_active and
\* verification_stage as they were.
C27_OnboardingOnce ==
  [][(resp'.op = "onboarding" /\ now' = now) =>
       LET token == resp'.token IN
         (/\ Genuine(token)
          /\ ~ExpiredAt(token, now)
          /\ SubOf(token) \in accounts
          /\ profile[SubOf(token)] # "none")
           => /\ resp'.http = 401
              /\ resp'.detail = "You have already onboarded"
              /\ UNCHANGED <<profile, is_active, verification_stage>>]_vars

\* C28: in every reachable state a user whose is_active is true has
\* verification_stage FULLY_VERIFIED.
C28_ActiveImpliesVerified ==
  \A u \in Users : is_active[u] => verification_stage[u] = "fully_verified"

\* The operations of the /officer router and of the /admin router.
OfficerOps == OfficerReads \cup {"decision"}
AdminOps == AdminReads \cup {"review", "update", "license"}

\* The token is one the server signed, has not expired and names a user.
ValidSession(token) ==
  Genuine(token) /\ ~ExpiredAt(token, now) /\ SubOf(token) \in accounts

\* C26: an /officer endpoint answers 401 to a request without a valid
\* session token and 403 to a user whose role is not OFFICER, an /admin
\* endpoint does the same for a role other than ADMIN, and in both cases
\* no row is returned or changed.
C26_StaffEndpointsGuarded ==
  [][(resp'.op \in OfficerOps \cup AdminOps) =>
       LET token == resp'.token
           needed == IF resp'.op \in OfficerOps THEN "officer" ELSE "admin"
       IN
         /\ ~ValidSession(token)
              => resp'.http = 401 /\ UNCHANGED <<bureau, registry>>
         /\ (ValidSession(token) /\ RoleOf(SubOf(token)) # needed)
              => resp'.http = 403 /\ UNCHANGED <<bureau, registry>>]_vars

\* A request for notifications that was answered.
InboxStep ==
  resp'.op \in {"mark_ids", "mark_all", "get_single"} /\ now' = now

\* C29: mark-read with any list of ids, mark-all-read and get single
\* notification leave every notification whose recipient is not the caller
\* as it was (is_read and read_at included), and get single notification
\* answers a logged-in user 404 for a notification of another user.
C29_OthersNotificationsUntouched ==
  [][InboxStep =>
       LET token == resp'.token
           user == SubOf(token)
           n == resp'.notification
       IN
         /\ \A m \in DOMAIN notifications :
              notifications[m].recipient_id # user
                => /\ m \in DOMAIN notifications'
                   /\ notifications'[m] = notifications[m]
         /\ (/\ resp'.op = "get_single"
             /\ Genuine(token) /\ ~ExpiredAt(token, now)
             /\ n \in DOMAIN notifications
             /\ notifications[n].recipient_id # user)
              => resp'.http = 404]_vars

\* A logged-in user asked for an unread notification of another user: the
\* answer is 404 and the notification is still unread.
C29_Witness ==
  /\ resp.op = "get_single" /\ resp.http = 404
  /\ Genuine(resp.token)
  /\ resp.notification \in DOMAIN notifications
  /\ notifications[resp.notification].recipient_id # SubOf(resp.token)
  /\ ~notifications[resp.notification].is_read

\* The unread notifications of user u.
UnreadOf(table, u) ==
  {n \in DOMAIN table : table[n].recipient_id = u /\ ~table[n].is_read}

\* The request of this step repeats the one answered last.
Repeated ==
  /\ resp.http = 200 /\ resp'.http = 200
  /\ resp'.op = resp.op /\ resp'.token = resp.token
  /\ resp'.ids = resp.ids
  /\ now' = now

\* C30: a notification that is read stays read and keeps its read_at under
\* every request; a mark-read or mark-all-read that repeats the request
\* answered last marks 0 notifications; after mark-all-read the caller has
\* no unread notification, and a listing that follows it reports
\* unread_count 0.
C30_ReadStateMonotone ==
  [][/\ \A n \in DOMAIN notifications :
          notifications[n].is_read
            => /\ n \in DOMAIN notifications'
               /\ notifications'[n].is_read
               /\ notifications'[n].read_at = notifications[n].read_at
     /\ (resp'.op \in {"mark_ids", "mark_all"} /\ Repeated)
          => resp'.rowcount = 0 /\ notifications' = notifications
     /\ (resp'.op = "mark_all" /\ resp'.http = 200 /\ now' = now)
          => UnreadOf(notifications', SubOf(resp'.token)) = {}
     /\ (/\ resp'.op = "list" /\ resp'.http = 200
         /\ resp.op = "mark_all" /\ resp.http = 200
         /\ resp'.token = resp.token /\ now' = now)
          => resp'.unread_count = 0]_vars

\* A mark-all-read at a later instant repeated an earlier one: it marked
\* nothing, and a notification of the caller still has the earlier read_at.
C30_Witness ==
  /\ resp.op = "mark_all" /\ resp.http = 200 /\ resp.rowcount = 0
  /\ \E n \in DOMAIN notifications :
       /\ notifications[n].recipient_id = SubOf(resp.token)
       /\ notifications[n].is_read
       /\ notifications[n].read_at < now

====
